---- MODULE Spec2Model ----
(***************************************************************************)
(* A model of the jkds containers: the array-backed Heap with its          *)
(* BinaryHeap and KHeap strategies (heap.h, binary_heap.h, k_heap.h), the  *)
(* PriorityQueue layered on them (priority_queue.h), the DisjointSet       *)
(* (disjoint_set.h) and the SparseByteSet (sparse_byte_set.h).             *)
(*                                                                         *)
(* Slots are numbered from 0 as in the code; the TLA+ sequence `nodes`     *)
(* holds slot i at position i + 1.                                         *)
(***************************************************************************)
EXTENDS Integers, Sequences, FiniteSets, TLC

VARIABLES
  cls,        \* the class of the object: "Heap", "PriorityQueue", "DisjointSet"
              \* or "SparseByteSet"
  HeapT,      \* template parameter: "min_heap" or "max_heap"
  HeapC,      \* heap class: "BinaryHeap" or "KHeap"
  K,          \* arity of a KHeap (2 for a BinaryHeap)
  IsHeap,     \* template parameter: the input is trusted to be a heap
  nodes,      \* Heap::nodes_; DisjointSet::nodes_
  key_map,    \* PriorityQueue::key_map_
  index_map,  \* PriorityQueue::index_map_; DisjointSet::index_map_
  ret,        \* how the last call ended: "ok" or the error
  halted,     \* the process was ended by abort() / std::terminate()
  input,      \* ghost: the constructor's input, kept while it is only read and popped
  expect,     \* ghost: contents after the last fill, in extraction order
  drain,      \* ghost: the top() values popped since the last fill
  lastKey,    \* ghost: stored value -> key most recently assigned to it
  dupPushed,  \* ghost: a value was inserted while already stored
  misuse,     \* ghost: calls made so far against the documented preconditions
  last,       \* ghost: the last call other than a read: make, push, pop, update_key
  result,     \* the value the last DisjointSet / SparseByteSet call returned
  united,     \* ghost: the pairs of elements related by the DisjointSet::unite calls so far
  size_,      \* SparseByteSet::size_
  sparse_,    \* SparseByteSet::sparse_
  dense_,     \* SparseByteSet::dense_
  added       \* ghost: the bytes added to the SparseByteSet since it was made or reset

vars == <<cls, HeapT, HeapC, K, IsHeap, nodes, key_map, index_map, ret,
          halted, input, expect, drain, lastKey, dupPushed, misuse, last,
          result, united, size_, sparse_, dense_, added>>

(* The state of the other containers, which no heap or queue call touches. *)
others == <<result, united, size_, sparse_, dense_, added>>

(* What no call of a heap or a queue changes: the template arguments and   *)
(* the other containers.                                                   *)
config == <<cls, HeapT, HeapC, K, IsHeap, others>>

----------------------------------------------------------------------------
(* Bounds of the model. *)

MaxLen == 4
MaxVal == 2
MaxLenPQ == 2
MaxMisuse == 1

Values == 0..MaxVal
(* The code stores keys and never compares them: two keys, a smaller and  *)
(* a larger one, are all a run can tell apart.                             *)
Keys == {0, 1}

(* std::size_t arithmetic is modular.  The code's width is 64 bits; the     *)
(* model keeps the wrap-around at a width the checker's integers can hold, *)
(* far above every index the model reaches.                                *)
SizeTMod == 2 ^ 30

(* The arities a program may name as the template argument K, around both *)
(* ends of the accepted range.                                             *)
ArityCandidates == {0, 1, 2, 3, 4, 64, 65}

KAccepted_fromTwo(k) == k >= 2 /\ k <= 64

(* The enable_if condition of the KHeap template. *)
KAccepted(k) == k > 2 /\ k <= 64

(* The model builds heaps of the accepted candidates. *)
Arities == {k \in ArityCandidates : KAccepted(k)}

RECURSIVE SeqsUpTo(_, _)
SeqsUpTo(S, n) ==
  IF n = 0 THEN {<< >>}
  ELSE LET shorter == SeqsUpTo(S, n - 1)
       IN shorter \cup {Append(s, x) : s \in {t \in shorter : Len(t) = n - 1}, x \in S}

----------------------------------------------------------------------------
(* Maps (std::unordered_map) are functions whose domain is the key set. *)

EmptyMap == [x \in {} |-> 0]

MapPut(m, k, v) == [x \in (DOMAIN m) \cup {k} |-> IF x = k THEN v ELSE m[x]]

MapErase(m, k) == [x \in (DOMAIN m) \ {k} |-> m[x]]

MapContains(m, k) == k \in DOMAIN m

(* operator[]: a missing key is inserted with a value-initialised entry. *)
MapSubscript(m, k) == IF k \in DOMAIN m THEN m ELSE MapPut(m, k, 0)

----------------------------------------------------------------------------
(* The values the variables of the other containers have while the object *)
(* is a heap or a queue.                                                   *)
NoOthers ==
  /\ result = "none"
  /\ united = {}
  /\ size_ = 0
  /\ sparse_ = << >>
  /\ dense_ = << >>
  /\ added = {}

----------------------------------------------------------------------------
(* Heap: comparator and slot access. *)

Comp_nonStrict(heapT, a, b) == IF heapT = "min_heap" THEN a >= b ELSE a <= b

Comp(heapT, a, b) == IF heapT = "min_heap" THEN a > b ELSE a < b

At(s, i) == s[i + 1]

(* The state a sift works on: the slots, the index map, whether an         *)
(* exception escaped a noexcept function, and the swaps made so far.       *)
SiftState(s, im) == [nodes |-> s, index_map |-> im, fault |-> FALSE, swaps |-> << >>]

BaseSwapNodes(s, i, j) == [s EXCEPT ![i + 1] = s[j + 1], ![j + 1] = s[i + 1]]

PQSwapIndexes_slotsOnly(im, a, b) == MapSubscript(MapSubscript(im, a), b)

(* std::swap(index_map_[node_i], index_map_[node_j]). *)
PQSwapIndexes(im, a, b) ==
  LET m1 == MapSubscript(MapSubscript(im, a), b)
  IN [m1 EXCEPT ![a] = m1[b], ![b] = m1[a]]

SwapNodes(pq, st, i, j) ==
  [st EXCEPT !.nodes = BaseSwapNodes(st.nodes, i, j),
             !.index_map = IF pq THEN PQSwapIndexes(st.index_map, At(st.nodes, i), At(st.nodes, j))
                           ELSE st.index_map,
             !.swaps = Append(st.swaps, <<i, j>>)]

Parent_kOneBased(heapC, k, i) ==
  IF heapC = "BinaryHeap" THEN ((i - 1) % SizeTMod) \div 2 ELSE i \div k

Parent_chain(heapC, k, i) == (i - 1) % SizeTMod

Parent(heapC, k, i) ==
  IF heapC = "BinaryHeap" THEN ((i - 1) % SizeTMod) \div 2
  ELSE ((i - 1) % SizeTMod) \div k

HeapifyUp_oneStep(pq, heapT, heapC, k, st, i) ==
  IF i > 0 /\ i < Len(st.nodes) /\ Comp(heapT, At(st.nodes, Parent(heapC, k, i)), At(st.nodes, i))
  THEN SwapNodes(pq, st, i, Parent(heapC, k, i))
  ELSE st

RECURSIVE HeapifyUp(_, _, _, _, _, _)
HeapifyUp(pq, heapT, heapC, k, st, i) ==
  IF i = 0 THEN st
  ELSE IF i >= Len(st.nodes) THEN [st EXCEPT !.fault = TRUE]
  ELSE LET p == Parent(heapC, k, i)
       IN IF Comp(heapT, At(st.nodes, p), At(st.nodes, i))
          THEN HeapifyUp(pq, heapT, heapC, k, SwapNodes(pq, st, i, p), p)
          ELSE st

----------------------------------------------------------------------------
(* BinaryHeap. *)

Left(i) == (i * 2) + 1

Right(i) == (i * 2) + 2

BinaryIsLeaf(size, i) == i >= (size \div 2) + 1

BinaryCompEst_leftOnly(heapT, s, i) ==
  IF Left(i) < Len(s) /\ Comp(heapT, At(s, i), At(s, Left(i))) THEN Left(i) ELSE i

BinaryCompEst_rightOnTie(heapT, s, i) ==
  LET len == Len(s)
      l == Left(i)
      r == Right(i)
      c1 == IF l < len /\ Comp(heapT, At(s, i), At(s, l)) THEN l ELSE i
  IN IF r < len /\ (Comp(heapT, At(s, c1), At(s, r)) \/ (c1 = l /\ At(s, r) = At(s, l)))
     THEN r ELSE c1

BinaryCompEst(heapT, s, i) ==
  LET len == Len(s)
      l == Left(i)
      r == Right(i)
      c1 == IF l < len /\ Comp(heapT, At(s, i), At(s, l)) THEN l ELSE i
  IN IF r < len /\ Comp(heapT, At(s, c1), At(s, r)) THEN r ELSE c1

RECURSIVE BinaryHeapifyDown(_, _, _, _)
BinaryHeapifyDown(pq, heapT, st, i) ==
  IF BinaryIsLeaf(Len(st.nodes), i) THEN st
  ELSE LET comp_est == BinaryCompEst(heapT, st.nodes, i)
       IN IF i = comp_est THEN st
          ELSE BinaryHeapifyDown(pq, heapT, SwapNodes(pq, st, i, comp_est), comp_est)

----------------------------------------------------------------------------
(* KHeap. *)

Child(k, i, j) == (k * i) + j + 1

KIsLeaf(k, size, i) == i > ((size - 2) % SizeTMod) \div k

KCompEst_firstChild(heapT, k, s, i, j, comp_est) ==
  IF Child(k, i, 0) < Len(s) /\ Comp(heapT, At(s, i), At(s, Child(k, i, 0)))
  THEN Child(k, i, 0) ELSE i

(* The for loop over the K children.  The sons grow with j and a son       *)
(* beyond the size leaves comp_est alone, so the evaluation stops at the   *)
(* first such son: the iterations left change nothing.                     *)
RECURSIVE KCompEst(_, _, _, _, _, _)
KCompEst(heapT, k, s, i, j, comp_est) ==
  IF j >= k \/ Child(k, i, j) >= Len(s) THEN comp_est
  ELSE LET son == Child(k, i, j)
       IN KCompEst(heapT, k, s, i, j + 1,
                   IF son < Len(s) /\ Comp(heapT, At(s, comp_est), At(s, son))
                   THEN son ELSE comp_est)

RECURSIVE KHeapifyDown(_, _, _, _, _)
KHeapifyDown(pq, heapT, k, st, i) ==
  IF KIsLeaf(k, Len(st.nodes), i) THEN st
  ELSE LET comp_est == KCompEst(heapT, k, st.nodes, i, 0, i)
       IN IF i = comp_est THEN st
          ELSE KHeapifyDown(pq, heapT, k, SwapNodes(pq, st, i, comp_est), comp_est)

----------------------------------------------------------------------------
(* Dispatch on the heap class, build_heap and heapify. *)

HeapifyDown(pq, heapT, heapC, k, st, i) ==
  IF heapC = "BinaryHeap" THEN BinaryHeapifyDown(pq, heapT, st, i)
  ELSE KHeapifyDown(pq, heapT, k, st, i)

RECURSIVE BuildLoop(_, _, _, _, _, _)
BuildLoop(pq, heapT, heapC, k, st, i) ==
  IF i = 0 THEN st
  ELSE BuildLoop(pq, heapT, heapC, k, HeapifyDown(pq, heapT, heapC, k, st, i - 1), i - 1)

BuildStart(heapC, k, size) ==
  IF heapC = "BinaryHeap" THEN (size \div 2) + 1 ELSE (size \div k) + 1

OtherType(heapT) == IF heapT = "min_heap" THEN "max_heap" ELSE "min_heap"

BuildHeap_otherType(pq, heapT, heapC, k, st) ==
  BuildLoop(pq, OtherType(heapT), heapC, k, st, BuildStart(heapC, k, Len(st.nodes)))

BuildHeap(pq, heapT, heapC, k, st) ==
  BuildLoop(pq, heapT, heapC, k, st, BuildStart(heapC, k, Len(st.nodes)))

Heapify_alwaysBuild(pq, heapT, heapC, k, isHeap, st) == BuildHeap(pq, heapT, heapC, k, st)

Heapify(pq, heapT, heapC, k, isHeap, st) ==
  IF isHeap THEN st ELSE BuildHeap(pq, heapT, heapC, k, st)

----------------------------------------------------------------------------
(* Ghost helpers: the extraction order of a collection of values, computed *)
(* by insertion sort, independently of the heap code.                      *)

Before(heapT, a, b) == IF heapT = "min_heap" THEN a <= b ELSE a >= b

RECURSIVE InsertSorted(_, _, _)
InsertSorted(heapT, s, x) ==
  IF s = << >> THEN <<x>>
  ELSE IF Before(heapT, x, Head(s)) THEN <<x>> \o s
  ELSE <<Head(s)>> \o InsertSorted(heapT, Tail(s), x)

RECURSIVE ExtractionOrder(_, _)
ExtractionOrder(heapT, s) ==
  IF s = << >> THEN << >> ELSE InsertSorted(heapT, ExtractionOrder(heapT, Tail(s)), Head(s))

RECURSIVE RemoveOne(_, _)
RemoveOne(s, x) ==
  IF s = << >> THEN << >>
  ELSE IF Head(s) = x THEN Tail(s)
  ELSE <<Head(s)>> \o RemoveOne(Tail(s), x)

RECURSIVE RemoveAll(_, _)
RemoveAll(s, d) ==
  IF d = << >> THEN s ELSE RemoveAll(RemoveOne(s, Head(d)), Tail(d))

IsPrefix(d, s) == Len(d) <= Len(s) /\ d = SubSeq(s, 1, Len(d))

HasDuplicate(s) == \E a, b \in DOMAIN s : a # b /\ s[a] = s[b]

----------------------------------------------------------------------------
(* The plain heaps: make_min_heap, make_max_heap, make_min_k_heap,         *)
(* make_max_k_heap, then size / empty / top / pop / push.                  *)

HeapTypes == {"min_heap", "max_heap"}

Inputs == SeqsUpTo(Values, MaxLen)

(* The inputs of the repository's tests. *)
TestVector == <<30, 1, 50, 20, 40, 60, 100>>

AlreadySeed == <<8, 7, 6, 5, 4, 3, 2, 1, 0>>

(* The seed of the min-heap tests. *)
AlreadyMinSeed == <<0, 1, 2, 3, 4, 5, 6, 7, 8>>

TestInputs == {TestVector, AlreadySeed, AlreadyMinSeed}

Init ==
  /\ cls = "Heap"
  /\ last = "make"
  /\ HeapT \in HeapTypes
  /\ \/ HeapC = "BinaryHeap" /\ K = 2
     \/ HeapC = "KHeap" /\ K \in Arities
  /\ IsHeap \in BOOLEAN
  /\ input \in Inputs \cup TestInputs
  /\ nodes = Heapify(FALSE, HeapT, HeapC, K, IsHeap, SiftState(input, EmptyMap)).nodes
  /\ key_map = EmptyMap
  /\ index_map = EmptyMap
  /\ ret = "ok"
  /\ halted = FALSE
  /\ expect = ExtractionOrder(HeapT, input)
  /\ drain = << >>
  /\ lastKey = EmptyMap
  /\ dupPushed = FALSE
  /\ misuse = 0
  /\ NoOthers

Size == Len(nodes)

Empty == Size = 0

HeapPushed_rebuild(heapT, heapC, k, s, v) ==
  BuildHeap(FALSE, heapT, heapC, k, SiftState(Append(s, v), EmptyMap)).nodes

(* Heap::push: emplace_back, then heapify_up from the new slot. *)
HeapPushed(heapT, heapC, k, s, v) ==
  HeapifyUp(FALSE, heapT, heapC, k, SiftState(Append(s, v), EmptyMap), Len(s)).nodes

PopTruncate_dropLast(s) == SubSeq(s, 1, Len(s) - 1)

(* Heap::pop on a non-empty heap: the last element replaces the root, the  *)
(* vector shrinks, heapify_down(0).                                        *)
PopTruncate(s) ==
  IF Len(s) = 1 THEN << >> ELSE [SubSeq(s, 1, Len(s) - 1) EXCEPT ![1] = s[Len(s)]]

HeapPopped(heapT, heapC, k, s) ==
  HeapifyDown(FALSE, heapT, heapC, k, SiftState(PopTruncate(s), EmptyMap), 0).nodes

(* Heap::pop on an empty heap evaluates nodes_.back() of an empty vector,  *)
(* which is undefined: the builds either reach nodes_.at(0), which throws  *)
(* std::out_of_range, or end the process at the read.                      *)
PopEmptyOutcomes == {"out_of_range", "abort"}

(* The loop of the tests: top() then pop() until the heap is empty, from   *)
(* the slot sequence s.                                                    *)
RECURSIVE PopOrder(_, _, _, _)
PopOrder(heapT, heapC, k, s) ==
  IF s = << >> THEN << >>
  ELSE <<At(s, 0)>> \o PopOrder(heapT, heapC, k, HeapPopped(heapT, heapC, k, s))

(* The slots a factory call leaves for an input. *)
Made(heapT, heapC, k, isHeap, s) ==
  Heapify(FALSE, heapT, heapC, k, isHeap, SiftState(s, EmptyMap)).nodes

Push(v) ==
  /\ ~halted
  /\ cls = "Heap"
  /\ last' = "push"
  /\ Size < MaxLen
  /\ nodes' = HeapPushed(HeapT, HeapC, K, nodes, v)
  /\ ret' = "ok"
  /\ input' = << >>
  /\ expect' = InsertSorted(HeapT, RemoveAll(expect, drain), v)
  /\ drain' = << >>
  /\ UNCHANGED <<config, key_map, index_map, halted, lastKey, dupPushed, misuse>>

Pop ==
  /\ ~halted
  /\ cls = "Heap"
  /\ last' = "pop"
  /\ ~Empty
  /\ nodes' = HeapPopped(HeapT, HeapC, K, nodes)
  /\ ret' = "ok"
  /\ drain' = Append(drain, At(nodes, 0))
  /\ UNCHANGED <<config, key_map, index_map, halted, input, expect, lastKey, dupPushed, misuse>>

PopEmpty ==
  /\ ~halted
  /\ cls = "Heap"
  /\ last' = "pop"
  /\ Empty
  /\ \E o \in PopEmptyOutcomes :
       /\ ret' = o
       /\ halted' = (o = "abort")
  /\ UNCHANGED <<config, nodes, key_map, index_map, input, expect, drain, lastKey, dupPushed, misuse>>

(* Heap::top: nodes_.at(0), which throws on an empty vector. *)
Top ==
  /\ ~halted
  /\ UNCHANGED last
  /\ ret' = IF Empty THEN "out_of_range" ELSE "ok"
  /\ UNCHANGED <<config, nodes, key_map, index_map, halted, input, expect, drain, lastKey, dupPushed, misuse>>

Next ==
  \/ \E v \in Values : Push(v)
  \/ Pop
  \/ PopEmpty
  \/ Top

Spec == Init /\ [][Next]_vars

----------------------------------------------------------------------------
(* functional::zip and util::range, as build_key_map and build_index_map   *)
(* use them.                                                               *)

MinOf(a, b) == IF a <= b THEN a ELSE b

Zip(a, b) == [i \in 1..MinOf(Len(a), Len(b)) |-> <<a[i], b[i]>>]

Range(size) == [i \in 1..size |-> i - 1]

RECURSIVE MapFromPairs(_, _)
MapFromPairs(m, pairs) ==
  IF pairs = << >> THEN m
  ELSE MapFromPairs(MapPut(m, Head(pairs)[1], Head(pairs)[2]), Tail(pairs))

Swapped(pairs) == [i \in DOMAIN pairs |-> <<pairs[i][2], pairs[i][1]>>]

(* key_map[node] = key for each (key, node) of zip(keys, nodes). *)
BuildKeyMap_afterSort(keys, s) ==
  MapFromPairs(EmptyMap, Swapped(Zip(keys, ExtractionOrder("min_heap", s))))

BuildKeyMap(keys, s) == MapFromPairs(EmptyMap, Swapped(Zip(keys, s)))

(* index_map[node] = index for each (node, index) of zip(nodes, indexes). *)
BuildIndexMap(s) == MapFromPairs(EmptyMap, Zip(s, Range(Len(s))))

----------------------------------------------------------------------------
(* The PriorityQueue: make_*_priority_queue, then push / pop / update_key  *)
(* / key_at / contains / top / top_key_value.  The constructor's input is  *)
(* a sequence of <<key, value>> pairs, standing for the two equal-length   *)
(* vectors.                                                                *)

KeysOf(pairs) == [i \in DOMAIN pairs |-> pairs[i][1]]

ValuesOf(pairs) == [i \in DOMAIN pairs |-> pairs[i][2]]

Elements(s) == {s[i] : i \in DOMAIN s}

(* The arity of the k-ary queues of the tests. *)
PQArities == {4}

(* Ghost helper: the last pair of the input that holds the value. *)
LastPairOf(pairs, v) ==
  CHOOSE i \in DOMAIN pairs :
    /\ pairs[i][2] = v
    /\ \A j \in DOMAIN pairs : pairs[j][2] = v => j <= i

PQInputs == SeqsUpTo(Keys \X Values, MaxLenPQ)

(* The input of the priority-queue tests: keys 5 4 1 3 6 0 2 for the       *)
(* characters m i n h e a p.                                               *)
TestPairs == <<<<5, 109>>, <<4, 105>>, <<1, 110>>, <<3, 104>>, <<6, 101>>, <<0, 97>>, <<2, 112>>>>

PQConstructed(heapT, heapC, k, isHeap, pairs) ==
  Heapify(TRUE, heapT, heapC, k, isHeap,
          SiftState(ValuesOf(pairs), BuildIndexMap(ValuesOf(pairs))))

InitPQ ==
  /\ cls = "PriorityQueue"
  /\ last = "make"
  /\ HeapT \in HeapTypes
  /\ \/ HeapC = "BinaryHeap" /\ K = 2
     \/ HeapC = "KHeap" /\ K \in PQArities
  /\ IsHeap \in BOOLEAN
  /\ input \in PQInputs \cup {TestPairs}
  /\ nodes = PQConstructed(HeapT, HeapC, K, IsHeap, input).nodes
  /\ index_map = PQConstructed(HeapT, HeapC, K, IsHeap, input).index_map
  /\ key_map = BuildKeyMap(KeysOf(input), ValuesOf(input))
  /\ ret = "ok"
  /\ halted = FALSE
  /\ expect = << >>
  /\ drain = << >>
  /\ lastKey = [v \in Elements(ValuesOf(input)) |-> input[LastPairOf(input, v)][1]]
  /\ dupPushed = HasDuplicate(ValuesOf(input))
  /\ misuse = IF dupPushed THEN 1 ELSE 0
  /\ NoOthers

Restrict(m, S) == [x \in (DOMAIN m) \cap S |-> m[x]]

(* PriorityQueue::push: both maps are written first, then Heap::push. *)
PQPushed_keepEntry(heapT, heapC, k, s, im, v) ==
  HeapifyUp(TRUE, heapT, heapC, k,
            SiftState(Append(s, v), IF MapContains(im, v) THEN im ELSE MapPut(im, v, Len(s))),
            Len(s))

PQPushed(heapT, heapC, k, s, im, v) ==
  HeapifyUp(TRUE, heapT, heapC, k, SiftState(Append(s, v), MapPut(im, v, Len(s))), Len(s))

PQPush(key, v) ==
  /\ ~halted
  /\ cls = "PriorityQueue"
  /\ last' = "push"
  /\ Size < MaxLenPQ
  /\ v \in Elements(nodes) => misuse < MaxMisuse
  /\ misuse' = IF v \in Elements(nodes) THEN misuse + 1 ELSE misuse
  /\ \E st \in {PQPushed(HeapT, HeapC, K, nodes, index_map, v)} :
       /\ nodes' = st.nodes
       /\ index_map' = st.index_map
  /\ key_map' = MapPut(key_map, v, key)
  /\ ret' = "ok"
  /\ input' = << >>
  /\ drain' = << >>
  /\ lastKey' = MapPut(lastKey, v, key)
  /\ dupPushed' = (dupPushed \/ v \in Elements(nodes))
  /\ UNCHANGED <<config, halted, expect>>

(* PriorityQueue::pop on a non-empty queue: the root's map entries are     *)
(* erased, the last element replaces the root, the vector shrinks and, if  *)
(* an element is left, its index is set to 0 and heapify_down(0) runs.     *)
PQPopped_staleFront(heapT, heapC, k, s, im) ==
  LET rest == PopTruncate(s)
  IN IF Len(rest) > 0
     THEN HeapifyDown(TRUE, heapT, heapC, k, SiftState(rest, MapErase(im, At(s, 0))), 0)
     ELSE SiftState(rest, MapErase(im, At(s, 0)))

PQPopped(heapT, heapC, k, s, im) ==
  LET erased == MapErase(im, At(s, 0))
      rest == PopTruncate(s)
  IN IF Len(rest) > 0
     THEN HeapifyDown(TRUE, heapT, heapC, k, SiftState(rest, MapPut(erased, At(rest, 0), 0)), 0)
     ELSE SiftState(rest, erased)

PQPop ==
  /\ ~halted
  /\ cls = "PriorityQueue"
  /\ last' = "pop"
  /\ ~Empty
  /\ \E st \in {PQPopped(HeapT, HeapC, K, nodes, index_map)} :
       /\ nodes' = st.nodes
       /\ index_map' = st.index_map
  /\ key_map' = MapErase(key_map, At(nodes, 0))
  /\ ret' = "ok"
  /\ drain' = IF input = << >> THEN << >> ELSE Append(drain, At(nodes, 0))
  /\ lastKey' = Restrict(lastKey, Elements(nodes'))
  /\ UNCHANGED <<config, halted, input, expect, dupPushed, misuse>>

(* PriorityQueue::pop on an empty queue: assert(size() > 0) ends the       *)
(* process where asserts are compiled in; with NDEBUG nodes_.at(0) throws. *)
PQPopEmptyOutcomes_unchecked == {"ok"}

PQPopEmptyOutcomes == {"abort", "out_of_range"}

PQPopEmpty ==
  /\ ~halted
  /\ cls = "PriorityQueue"
  /\ last' = "pop"
  /\ Empty
  /\ \E o \in PQPopEmptyOutcomes :
       /\ ret' = o
       /\ halted' = (o = "abort")
  /\ UNCHANGED <<config, nodes, key_map, index_map, input, expect, drain, lastKey, dupPushed, misuse>>

(* PriorityQueue::update_key: index_map_[element] and key_map_[element]    *)
(* are operator[] accesses; the sift is picked by the switch on HeapT.     *)
UpdateKeySift_byKey(heapT, km, v, key) ==
  IF v \in DOMAIN km /\ key > km[v] THEN "down" ELSE "up"

UpdateKeySift(heapT, km, v, key) == IF heapT = "min_heap" THEN "up" ELSE "down"

PQKeyUpdated_otherComp(heapT, heapC, k, s, im, km, v, key) ==
  LET im1 == MapSubscript(im, v)
      index_to_fix == im1[v]
  IN IF UpdateKeySift(heapT, km, v, key) = "up"
     THEN HeapifyUp(TRUE, OtherType(heapT), heapC, k, SiftState(s, im1), index_to_fix)
     ELSE HeapifyDown(TRUE, OtherType(heapT), heapC, k, SiftState(s, im1), index_to_fix)

PQKeyUpdated(heapT, heapC, k, s, im, km, v, key) ==
  LET im1 == MapSubscript(im, v)
      index_to_fix == im1[v]
  IN IF UpdateKeySift(heapT, km, v, key) = "up"
     THEN HeapifyUp(TRUE, heapT, heapC, k, SiftState(s, im1), index_to_fix)
     ELSE HeapifyDown(TRUE, heapT, heapC, k, SiftState(s, im1), index_to_fix)

PQUpdateKey(key, v) ==
  /\ ~halted
  /\ cls = "PriorityQueue"
  /\ last' = "update_key"
  /\ v \notin Elements(nodes) => misuse < MaxMisuse
  /\ misuse' = IF v \notin Elements(nodes) THEN misuse + 1 ELSE misuse
  /\ \E st \in {PQKeyUpdated(HeapT, HeapC, K, nodes, index_map, key_map, v, key)} :
       /\ nodes' = st.nodes
       /\ index_map' = st.index_map
       /\ halted' = st.fault
       /\ ret' = IF st.fault THEN "terminate" ELSE "ok"
  /\ key_map' = MapPut(key_map, v, key)
  /\ input' = << >>
  /\ drain' = << >>
  /\ lastKey' = IF v \in Elements(nodes) THEN MapPut(lastKey, v, key) ELSE lastKey
  /\ UNCHANGED <<config, expect, dupPushed>>

(* PriorityQueue::key_at: key_map_.at(element), which throws when the      *)
(* element has no entry.                                                   *)
KeyAtOutcome(km, v) == IF MapContains(km, v) THEN "ok" ELSE "out_of_range"

PQKeyAt(v) ==
  /\ ~halted
  /\ cls = "PriorityQueue"
  /\ UNCHANGED last
  /\ ret' = KeyAtOutcome(key_map, v)
  /\ UNCHANGED <<config, nodes, key_map, index_map, halted, input, expect, drain, lastKey, dupPushed, misuse>>

Contains(v) == MapContains(index_map, v)

(* PriorityQueue::top_key_value: super::top(), then key_at of it. *)
TopKeyValue == <<key_map[At(nodes, 0)], At(nodes, 0)>>

PQTopKeyValue ==
  /\ ~halted
  /\ cls = "PriorityQueue"
  /\ UNCHANGED last
  /\ ret' = IF Empty THEN "out_of_range" ELSE KeyAtOutcome(key_map, At(nodes, 0))
  /\ UNCHANGED <<config, nodes, key_map, index_map, halted, input, expect, drain, lastKey, dupPushed, misuse>>

NextPQ ==
  \/ \E key \in Keys, v \in Values : PQPush(key, v)
  \/ PQPop
  \/ PQPopEmpty
  \/ \E key \in Keys, v \in Values : PQUpdateKey(key, v)
  \/ \E v \in Values : PQKeyAt(v)
  \/ PQTopKeyValue
  \/ Top

SpecPQ == InitPQ /\ [][NextPQ]_vars

(* Both families of objects. *)
InitAll == Init \/ InitPQ

NextAll == Next \/ NextPQ

SpecAll == InitAll /\ [][NextAll]_vars

(* A program that names an arity the KHeap template does not accept is     *)
(* ill-formed: no object exists and no call is ever made.                  *)
InitRejected ==
  /\ cls \in {"Heap", "PriorityQueue"}
  /\ last = "make"
  /\ HeapT \in HeapTypes
  /\ HeapC = "KHeap"
  /\ K \in {k \in ArityCandidates : ~KAccepted(k)}
  /\ IsHeap \in BOOLEAN
  /\ input = << >>
  /\ nodes = << >>
  /\ key_map = EmptyMap
  /\ index_map = EmptyMap
  /\ ret = "ill_formed"
  /\ halted = TRUE
  /\ expect = << >>
  /\ drain = << >>
  /\ lastKey = EmptyMap
  /\ dupPushed = FALSE
  /\ misuse = 0
  /\ NoOthers

(* Every instantiation of the factories, accepted or not. *)
InitArity == InitAll \/ InitRejected

SpecArity == InitArity /\ [][NextAll]_vars

----------------------------------------------------------------------------
(* The heap property of a slot sequence, stated over the child slots. *)

ChildSlots(heapC, k, i) ==
  IF heapC = "BinaryHeap" THEN {Left(i), Right(i)}
  ELSE {Child(k, i, j) : j \in 0..(k - 1)}

HeapProperty(heapT, heapC, k, s) ==
  \A i \in 0..(Len(s) - 1) :
    \A c \in ChildSlots(heapC, k, i) :
      c < Len(s) => ~Comp(heapT, At(s, i), At(s, c))

(* C1: on a heap made in build mode, after the construction and after     *)
(* every push and pop, no slot is beaten under comp by one of its          *)
(* in-bounds children.                                                     *)
C1_HeapProperty == ~IsHeap => HeapProperty(HeapT, HeapC, K, nodes)

(* C1 witness: a full-length input that is not a heap was built and then   *)
(* popped once.                                                            *)
C1_Witness ==
  /\ ~IsHeap
  /\ Len(input) = MaxLen
  /\ ~HeapProperty(HeapT, HeapC, K, input)
  /\ Len(drain) = 1
  /\ Size = MaxLen - 1
  /\ HeapC = "KHeap"

(* C2: a heap filled in build mode or by pushes gives its values back in   *)
(* extraction order: what has been popped since the last fill is always    *)
(* the leading part of the sorted contents, and all of them once the heap  *)
(* is empty; the max binary heap of the test vector pops                   *)
(* 100, 60, 50, 40, 30, 20, 1.                                             *)
C2_SortedExtraction ==
  ~IsHeap =>
    /\ IsPrefix(drain, expect)
    /\ Empty => drain = expect
    /\ (Empty /\ input = TestVector /\ HeapT = "max_heap")
         => drain = <<100, 60, 50, 40, 30, 20, 1>>

(* C2 witness: an unsorted input with a repeated value was built and       *)
(* popped until empty.                                                     *)
C2_Witness ==
  /\ ~IsHeap
  /\ Empty
  /\ Len(input) = MaxLen
  /\ Len(drain) = MaxLen
  /\ input # drain
  /\ HasDuplicate(drain)

----------------------------------------------------------------------------
(* Helpers of the priority-queue claims. *)

Slots == 0..(Size - 1)

Stored == Elements(nodes)

(* The slot of a value that is stored once. *)
SlotOf(s, v) == CHOOSE i \in 0..(Len(s) - 1) : At(s, i) = v

(* The key the constructor's input pairs with a value. *)
PairedKey(pairs, v) == (CHOOSE i \in DOMAIN pairs : pairs[i][2] = v)

MapsExact ==
  \A i \in Slots :
    /\ MapContains(index_map, At(nodes, i))
    /\ index_map[At(nodes, i)] = i
    /\ MapContains(key_map, At(nodes, i))
    /\ MapContains(lastKey, At(nodes, i))
    /\ key_map[At(nodes, i)] = lastKey[At(nodes, i)]

(* C3 as claimed: after any sequence of calls every stored value has its   *)
(* slot in index_map and its latest key in key_map.                        *)
C3_MapsExactAlways == cls = "PriorityQueue" => MapsExact

(* C3 amended: the same, for the queues into which no value was inserted   *)
(* while it was already stored.                                            *)
C3_MapsExactWhenDistinct == (cls = "PriorityQueue" /\ ~dupPushed) => MapsExact

(* C3 witness: a queue of distinct values whose last call was an           *)
(* update_key, after an update_key of an absent value left a stray entry.  *)
C3_Witness ==
  /\ cls = "PriorityQueue"
  /\ ~dupPushed
  /\ last = "update_key"
  /\ Size = MaxLenPQ
  /\ misuse = 1
  /\ \E v \in Stored : key_map[v] = 1 /\ index_map[v] = 1

(* C4 as claimed: the top of a built min queue carries the smallest of the *)
(* stored keys, and the 4-ary min queue of the test input, once emptied,   *)
(* has popped the values a n p h i m e.                                    *)
C4_PopsInKeyOrder ==
  (cls = "PriorityQueue" /\ HeapT = "min_heap" /\ ~IsHeap /\ input # << >>
     /\ ~HasDuplicate(ValuesOf(input)))
  => /\ ~Empty => \A v \in Stored : TopKeyValue[1] <= key_map[v]
     /\ (Empty /\ input = TestPairs) => drain = <<97, 110, 112, 104, 105, 109, 101>>

C6_UpdateKeyDirection ==
  [][\A key \in Keys, v \in Values :
       (v \in Stored /\ ~dupPushed /\ ~halted' /\ last' = "update_key"
          /\ MapContains(key_map', v) /\ key_map'[v] = key /\ PQUpdateKey(key, v))
       => /\ HeapT = "min_heap" => SlotOf(nodes', v) <= SlotOf(nodes, v)
          /\ HeapT = "max_heap" => SlotOf(nodes', v) >= SlotOf(nodes, v)]_vars

(* C6 witness: the last call was an update_key of a stored value (no call  *)
(* broke a precondition) on a full queue that was taken over as given.     *)
C6_Witness ==
  /\ cls = "PriorityQueue"
  /\ IsHeap
  /\ last = "update_key"
  /\ misuse = 0
  /\ Size = MaxLenPQ
  /\ HeapProperty(HeapT, HeapC, K, nodes)
  /\ \E v \in Stored : index_map[v] = 0 /\ key_map[v] = 1

Absent(v) == v \notin Stored /\ ~MapContains(index_map, v) /\ ~MapContains(key_map, v)

(* C7 as claimed: update_key and key_at of a value that is not in the      *)
(* queue fail and leave the sequence and both maps as they were.           *)
C7_AbsentValueFaults ==
  [][\A key \in Keys, v \in Values :
       ((PQUpdateKey(key, v) \/ PQKeyAt(v)) /\ Absent(v))
       => /\ ret' # "ok"
          /\ nodes' = nodes
          /\ index_map' = index_map
          /\ key_map' = key_map
          /\ ~MapContains(index_map', v)]_vars

(* The slot an element appended at slot i ends in: it climbs while comp    *)
(* puts it above its parent.                                               *)
RECURSIVE ClimbedSlot(_, _, _, _, _)
ClimbedSlot(heapT, arity, s, i, v) ==
  IF i > 0 /\ Comp(heapT, At(s, (i - 1) \div arity), v)
  THEN ClimbedSlot(heapT, arity, s, (i - 1) \div arity, v)
  ELSE i

C9_ContainsIffStored ==
  cls = "PriorityQueue" => \A v \in Values \cup Stored : Contains(v) <=> v \in Stored

----------------------------------------------------------------------------
(* Claims about the contents and the size of the plain heaps. *)

(* The values the heap has to hold: what the last fill left, less what was *)
(* popped since.                                                           *)
Remaining == RemoveAll(expect, drain)

(* C11: after the construction and after every push and successful pop the *)
(* slots hold a permutation of the initial and pushed values less the      *)
(* popped ones, every popped value being the top() before its pop; size()  *)
(* is the number of those values and empty() holds exactly when it is 0.   *)
C11_ContentsAndSize ==
  cls = "Heap" =>
    /\ ExtractionOrder(HeapT, nodes) = ExtractionOrder(HeapT, Remaining)
    /\ Size = Len(expect) - Len(drain)
    /\ Size = Len(Remaining)
    /\ Empty <=> Size = 0
    /\ Empty <=> Remaining = << >>

(* C11 witness: values were pushed, two pops followed, and values with a   *)
(* repetition are left in slots that are not in extraction order.          *)
C11_Witness ==
  /\ cls = "Heap"
  /\ last = "pop"
  /\ input = << >>
  /\ Len(drain) = 2
  /\ Size = MaxLen - 2
  /\ HasDuplicate(expect)
  /\ drain[1] # drain[2]

(* C12: for an input that satisfies the heap property, the heap that takes *)
(* it over as given and the heap that builds from it pop the same sequence *)
(* of top() values until empty; the heap of either mode, while it is only  *)
(* popped, is on the pop sequence of the other mode.                       *)
C12_AssumeHeapEquivalence ==
  (cls = "Heap" /\ input # << >> /\ HeapProperty(HeapT, HeapC, K, input))
  => /\ PopOrder(HeapT, HeapC, K, Made(HeapT, HeapC, K, TRUE, input))
          = PopOrder(HeapT, HeapC, K, Made(HeapT, HeapC, K, FALSE, input))
     /\ IsPrefix(drain, PopOrder(HeapT, HeapC, K, Made(HeapT, HeapC, K, ~IsHeap, input)))
     /\ Empty => drain = PopOrder(HeapT, HeapC, K, Made(HeapT, HeapC, K, ~IsHeap, input))

(* C12 witness: a full-length input that is a heap without being sorted    *)
(* was taken over as given and popped until empty.                         *)
C12_Witness ==
  /\ cls = "Heap"
  /\ IsHeap
  /\ Len(input) = MaxLen
  /\ HeapProperty(HeapT, HeapC, K, input)
  /\ input # ExtractionOrder(HeapT, input)
  /\ Empty
  /\ drain = PopOrder(HeapT, HeapC, K, Made(HeapT, HeapC, K, FALSE, input))

(* C13: a heap made in assume-heap mode holds its input unchanged, so that *)
(* top() is the first input element; when the input is sorted in           *)
(* extraction order the pops return it in the input order, starting from a *)
(* size equal to the input length.                                         *)
C13_AssumeHeapKeepsInput ==
  (cls = "Heap" /\ IsHeap) =>
    /\ last = "make" =>
         /\ nodes = input
         /\ Size = Len(input)
         /\ input # << >> => At(nodes, 0) = input[1]
    /\ (input # << >> /\ input = ExtractionOrder(HeapT, input)) =>
         /\ IsPrefix(drain, input)
         /\ Size + Len(drain) = Len(input)
         /\ ~Empty => At(nodes, 0) = input[Len(drain) + 1]
         /\ Empty => drain = input

(* C13 witness: a full-length input sorted in extraction order, not all    *)
(* values equal, was taken over as given by a k-ary heap and popped until  *)
(* empty.                                                                  *)
C13_Witness ==
  /\ cls = "Heap"
  /\ IsHeap
  /\ HeapC = "KHeap"
  /\ Len(input) = MaxLen
  /\ input = ExtractionOrder(HeapT, input)
  /\ input[1] # input[MaxLen]
  /\ Empty
  /\ drain = input

(* C14 as claimed: the min 4-ary heap that takes over 8 7 6 5 4 3 2 1 0 as *)
(* given has 0 on top, and its pops return the values in the input order.  *)
C14_DescendingSeedPopsInOrder ==
  (cls = "Heap" /\ IsHeap /\ HeapT = "min_heap" /\ HeapC = "KHeap" /\ K = 4
     /\ input = AlreadySeed)
  => /\ last = "make" => (ret = "ok" /\ At(nodes, 0) = 0)
     /\ IsPrefix(drain, input)

(* C14 amended: the min 4-ary heap that takes over 0 1 2 3 4 5 6 7 8 as    *)
(* given has 0 on top without error, and its pops return the values in the *)
(* input order.                                                            *)
C14_AscendingSeedPopsInOrder ==
  (cls = "Heap" /\ IsHeap /\ HeapT = "min_heap" /\ HeapC = "KHeap" /\ K = 4
     /\ input = AlreadyMinSeed)
  => /\ last = "make" => (ret = "ok" /\ At(nodes, 0) = 0)
     /\ IsPrefix(drain, input)
     /\ Size + Len(drain) = Len(input)
     /\ ~Empty => At(nodes, 0) = input[Len(drain) + 1]
     /\ Empty => drain = <<0, 1, 2, 3, 4, 5, 6, 7, 8>>

(* C14 witness: the min 4-ary heap of the ascending seed, taken over as    *)
(* given and popped until empty.                                           *)
C14_Witness ==
  /\ cls = "Heap"
  /\ IsHeap
  /\ HeapT = "min_heap"
  /\ HeapC = "KHeap"
  /\ K = 4
  /\ input = AlreadyMinSeed
  /\ Empty
  /\ Len(drain) = 9

(* C15: the KHeap strategy evaluated with K = 2 agrees with the BinaryHeap *)
(* strategy on every state of a binary heap: the construction, every push  *)
(* and every pop give the same slots (hence the same sizes), the heap      *)
(* property is the same predicate, and the pops until empty return the     *)
(* same values.                                                            *)
C15_BinaryIsTwoAry ==
  [][HeapC = "BinaryHeap" /\ cls = "Heap" =>
       /\ last = "make" => nodes = Made(HeapT, "KHeap", 2, IsHeap, input)
       /\ \A v \in Values : Push(v) => nodes' = HeapPushed(HeapT, "KHeap", 2, nodes, v)
       /\ Pop => nodes' = HeapPopped(HeapT, "KHeap", 2, nodes)
       /\ HeapProperty(HeapT, "KHeap", 2, nodes) <=> HeapProperty(HeapT, "BinaryHeap", 2, nodes)
       /\ PopOrder(HeapT, "KHeap", 2, nodes) = PopOrder(HeapT, "BinaryHeap", 2, nodes)]_vars

(* C15 witness: a binary heap, filled by pushes and popped once, whose     *)
(* slots are not in extraction order and which the two-ary strategy        *)
(* empties in extraction order.                                            *)
C15_Witness ==
  /\ cls = "Heap"
  /\ HeapC = "BinaryHeap"
  /\ input = << >>
  /\ last = "pop"
  /\ Len(drain) = 1
  /\ Size = MaxLen - 1
  /\ nodes # Remaining
  /\ PopOrder(HeapT, "KHeap", 2, nodes) = Remaining

----------------------------------------------------------------------------
(* The arity of the k-ary heaps and queues. *)

Rejected == ret = "ill_formed"

(* C16: a k-ary heap or k-ary queue exists only for an arity K with        *)
(* 2 < K <= 64; for every other K the instantiation is rejected: there is  *)
(* no object, nothing was computed with K and no call ever runs.           *)
C16_ArityRange ==
  HeapC = "KHeap" =>
    /\ ~Rejected => (2 < K /\ K <= 64)
    /\ ~(2 < K /\ K <= 64) =>
         /\ Rejected
         /\ halted
         /\ last = "make"
         /\ nodes = << >>
         /\ index_map = EmptyMap
         /\ key_map = EmptyMap

(* C16 witness: the instantiation of a k-ary queue with K = 2 was         *)
(* rejected.                                                               *)
C16_Witness ==
  /\ HeapC = "KHeap"
  /\ cls = "PriorityQueue"
  /\ K = 2
  /\ Rejected
  /\ halted

----------------------------------------------------------------------------
(* The DisjointSet (disjoint_set.h).  nodes holds the Node records (parent *)
(* and rank) and index_map the index of every element.                     *)

MaxNodes == 3

Elems == 0..(MaxNodes - 1)

(* The values the variables of the heaps have while the object is none. *)
NoHeap ==
  /\ HeapT = "none"
  /\ HeapC = "none"
  /\ K = 0
  /\ IsHeap = FALSE
  /\ key_map = EmptyMap
  /\ expect = << >>
  /\ drain = << >>
  /\ lastKey = EmptyMap

heapVars == <<HeapT, HeapC, K, IsHeap, key_map, expect, drain, lastKey>>

byteSetVars == <<size_, sparse_, dense_, added>>

Node_parentZero(parent) == [parent |-> 0, rank |-> 0]

Node(parent) == [parent |-> parent, rank |-> 0]

(* fmap of the Node constructor over range(size). *)
InitNodes(size) == [i \in DOMAIN Range(size) |-> Node(Range(size)[i])]

(* unordered_map::emplace: an existing entry is kept. *)
MapEmplace(m, k, v) == IF k \in DOMAIN m THEN m ELSE MapPut(m, k, v)

RECURSIVE EmplacePairs(_, _)
EmplacePairs(m, pairs) ==
  IF pairs = << >> THEN m
  ELSE EmplacePairs(MapEmplace(m, Head(pairs)[1], Head(pairs)[2]), Tail(pairs))

InitIndexMap(inputs) == EmplacePairs(EmptyMap, Zip(inputs, Range(Len(inputs))))

Find_detach(ns, index) ==
  IF index = At(ns, index).parent THEN [nodes |-> ns, index |-> index]
  ELSE [nodes |-> [ns EXCEPT ![index + 1].parent = index],
        index |-> At(ns, At(ns, index).parent).parent]

Find_oneStep(ns, index) == [nodes |-> ns, index |-> At(ns, index).parent]

(* find: walks to the representative, pointing every visited node to its   *)
(* grandparent.  Gives the nodes it leaves and the index it returns.       *)
RECURSIVE Find(_, _)
Find(ns, index) ==
  IF index = At(ns, index).parent THEN [nodes |-> ns, index |-> index]
  ELSE LET grandparent == At(ns, At(ns, index).parent).parent
       IN Find([ns EXCEPT ![index + 1].parent = grandparent], grandparent)

(* The part of unite after the two finds, for representatives i0 and j0. *)
Linked(ns, i0, j0) ==
  IF i0 = j0 THEN ns
  ELSE LET swap == At(ns, i0).rank < At(ns, j0).rank
           i == IF swap THEN j0 ELSE i0
           j == IF swap THEN i0 ELSE j0
           ns1 == [ns EXCEPT ![j + 1].parent = i]
       IN IF At(ns1, i).rank = At(ns1, j).rank
          THEN [ns1 EXCEPT ![j + 1].rank = @ + 1]
          ELSE ns1

United(ns, im, x, y) ==
  LET fi == Find(ns, im[x])
      fj == Find(fi.nodes, im[y])
  IN Linked(fj.nodes, fi.index, fj.index)

(* are_connected: the nodes the two finds leave and the value returned. *)
Connected(ns, im, x, y) ==
  LET fi == Find(ns, im[x])
      fj == Find(fi.nodes, im[y])
  IN [nodes |-> fj.nodes, value |-> (fi.index = fj.index)]

(* The orders in which an unordered_map may hand out its entries. *)
Orders(S) ==
  {o \in [1..Cardinality(S) -> S] : \A a, b \in 1..Cardinality(S) : a # b => o[a] # o[b]}

(* get_sets: sets[find(index)].emplace_back(x) for the entries in the      *)
(* order the map hands them out.                                           *)
RECURSIVE SetsLoop(_, _, _, _)
SetsLoop(ns, im, order, sets) ==
  IF order = << >> THEN [nodes |-> ns, sets |-> sets]
  ELSE LET x == Head(order)
           f == Find(ns, im[x])
           set == IF MapContains(sets, f.index) THEN sets[f.index] ELSE << >>
       IN SetsLoop(f.nodes, im, Tail(order), MapPut(sets, f.index, Append(set, x)))

GetSets(ns, im, order) == SetsLoop(ns, im, order, EmptyMap)

MaxInput == 2

(* The class only hashes its elements and compares them for equality, so  *)
(* the model names them in the order of their first appearance: an element *)
(* that is new to the set is the least one not yet used.                   *)
InOrderOfAppearance(s) ==
  \A i \in DOMAIN s : s[i] <= Cardinality({s[j] : j \in 1..(i - 1)})

DSInputs == {s \in SeqsUpTo(Elems, MaxInput) : InOrderOfAppearance(s)}

NextNew(im) == Cardinality(DOMAIN im)

(* Ghost helper: the symmetric and transitive closure of a set of pairs    *)
(* {a, b} after the pair {x, y} joined it.                                 *)
RECURSIVE Grow(_, _)
Grow(S, R) ==
  LET more == S \cup {b \in Elems : \E a \in S : {a, b} \in R}
  IN IF more = S THEN S ELSE Grow(more, R)

Related(R, x, y) ==
  LET class == Grow({x}, R \cup {{x, y}})
  IN R \cup {{a, b} : a \in class, b \in class}

InitDS ==
  /\ cls = "DisjointSet"
  /\ last = "make"
  /\ NoHeap
  /\ input \in DSInputs
  /\ nodes = InitNodes(Len(input))
  /\ index_map = InitIndexMap(input)
  /\ ret = "ok"
  /\ halted = FALSE
  /\ dupPushed = HasDuplicate(input)
  /\ misuse = 0
  /\ result = "none"
  /\ united = {}
  /\ size_ = 0
  /\ sparse_ = << >>
  /\ dense_ = << >>
  /\ added = {}

(* add of an element that has an entry already: emplace fails and          *)
(* assert(ok) ends the process where asserts are compiled in; with NDEBUG  *)
(* the index of the existing entry is returned.  The node was appended     *)
(* before.                                                                 *)
AddPresentOutcomes == {"abort", "ok"}

DSAdd(x) ==
  /\ ~halted
  /\ cls = "DisjointSet"
  /\ last' = "add"
  /\ Len(nodes) < MaxNodes
  /\ x <= NextNew(index_map)
  /\ MapContains(index_map, x) => misuse < MaxMisuse
  /\ misuse' = IF MapContains(index_map, x) THEN misuse + 1 ELSE misuse
  /\ dupPushed' = (dupPushed \/ MapContains(index_map, x))
  /\ nodes' = Append(nodes, Node(Len(nodes)))
  /\ index_map' = MapEmplace(index_map, x, Len(nodes))
  /\ \E o \in (IF MapContains(index_map, x) THEN AddPresentOutcomes ELSE {"ok"}) :
       /\ ret' = o
       /\ halted' = (o = "abort")
       /\ result' = IF o = "ok" THEN index_map'[x] ELSE "none"
  /\ UNCHANGED <<cls, heapVars, input, united, byteSetVars>>

(* unite, are_connected: index_map_.at of an element without an entry      *)
(* throws inside a noexcept function, which ends the process.              *)
DSUnite(x, y) ==
  /\ ~halted
  /\ cls = "DisjointSet"
  /\ last' = "unite"
  /\ result' = "none"
  /\ IF MapContains(index_map, x) /\ MapContains(index_map, y)
     THEN /\ nodes' = United(nodes, index_map, x, y)
          /\ united' = Related(united, x, y)
          /\ ret' = "ok"
          /\ UNCHANGED halted
     ELSE /\ nodes' = IF MapContains(index_map, x) THEN Find(nodes, index_map[x]).nodes ELSE nodes
          /\ ret' = "terminate"
          /\ halted' = TRUE
          /\ UNCHANGED united
  /\ UNCHANGED <<cls, heapVars, input, index_map, dupPushed, misuse, byteSetVars>>

DSAreConnected(x, y) ==
  /\ ~halted
  /\ cls = "DisjointSet"
  /\ last' = "are_connected"
  /\ IF MapContains(index_map, x) /\ MapContains(index_map, y)
     THEN /\ \E st \in {Connected(nodes, index_map, x, y)} :
               /\ nodes' = st.nodes
               /\ result' = st.value
          /\ ret' = "ok"
          /\ UNCHANGED halted
     ELSE /\ nodes' = IF MapContains(index_map, x) THEN Find(nodes, index_map[x]).nodes ELSE nodes
          /\ result' = "none"
          /\ ret' = "terminate"
          /\ halted' = TRUE
  /\ UNCHANGED <<cls, heapVars, input, index_map, dupPushed, misuse, united, byteSetVars>>

DSGetSets ==
  /\ ~halted
  /\ cls = "DisjointSet"
  /\ last' = "get_sets"
  /\ \E st \in {GetSets(nodes, index_map, order) : order \in Orders(DOMAIN index_map)} :
       /\ nodes' = st.nodes
       /\ result' = st.sets
  /\ ret' = "ok"
  /\ UNCHANGED <<cls, heapVars, input, index_map, halted, dupPushed, misuse, united, byteSetVars>>

NextDS ==
  \/ \E x \in Elems : DSAdd(x)
  \/ \E x, y \in Elems : DSUnite(x, y)
  \/ \E x, y \in Elems : DSAreConnected(x, y)
  \/ DSGetSets

SpecDS == InitDS /\ [][NextDS]_vars

----------------------------------------------------------------------------
(* Claims about the DisjointSet. *)

Present(x) == MapContains(index_map, x)

(* The elements the unite calls so far relate to x. *)
ClassOf(R, x) == {x} \cup {y \in Elems : {x, y} \in R}

Classes(R, im) == {ClassOf(R, x) \cap DOMAIN im : x \in DOMAIN im}

(* The representative of a node, read off the parent links in at most as   *)
(* many steps as there are nodes.                                          *)
RECURSIVE RootWalk(_, _, _)
RootWalk(ns, i, fuel) ==
  IF fuel = 0 \/ At(ns, i).parent = i THEN i ELSE RootWalk(ns, At(ns, i).parent, fuel - 1)

RootOf(ns, i) == RootWalk(ns, i, Len(ns))

Partition(ns, im) ==
  {{y \in DOMAIN im : RootOf(ns, im[y]) = RootOf(ns, im[x])} : x \in DOMAIN im}

SetsAreClasses(sets, R, im) ==
  /\ {Elements(sets[r]) : r \in DOMAIN sets} = Classes(R, im)
  /\ \A r \in DOMAIN sets : ~HasDuplicate(sets[r])
  /\ \A r1, r2 \in DOMAIN sets : r1 # r2 => Elements(sets[r1]) \cap Elements(sets[r2]) = {}

(* C17: after any sequence of add and unite calls (and of queries),        *)
(* are_connected(x, y) returns true exactly when the unite calls so far    *)
(* relate x and y, and get_sets, in whatever order the map hands out its   *)
(* entries, returns exactly the classes of that relation, every element in *)
(* one set; the sets read off the parent links are those classes, so a     *)
(* unite of two connected elements leaves them as they were.               *)
C17_ConnectedIffUnited ==
  (cls = "DisjointSet" /\ ~halted) =>
    /\ \A x, y \in DOMAIN index_map :
         Connected(nodes, index_map, x, y).value <=> y \in ClassOf(united, x)
    /\ \A order \in Orders(DOMAIN index_map) :
         SetsAreClasses(GetSets(nodes, index_map, order).sets, united, index_map)
    /\ Partition(nodes, index_map) = Classes(united, index_map)
    /\ last = "get_sets" => SetsAreClasses(result, united, index_map)
    /\ last = "are_connected" => result \in BOOLEAN

(* C17 witness: get_sets returned a set of two elements and a singleton    *)
(* after a unite.                                                          *)
C17_Witness ==
  /\ cls = "DisjointSet"
  /\ last = "get_sets"
  /\ ~halted
  /\ Cardinality(DOMAIN index_map) = MaxNodes
  /\ Cardinality(DOMAIN result) = 2
  /\ \E r \in DOMAIN result : Len(result[r]) = 2

(* C18 as claimed: add of an element that is not present returns the       *)
(* number of elements held before the call, and the element starts as a    *)
(* singleton connected to no other element.                                *)
C18_AddReturnsCount ==
  [][\A x \in Elems :
       (~Present(x) /\ DSAdd(x))
       => /\ result' = Cardinality(DOMAIN index_map)
          /\ index_map'[x] = result'
          /\ \A y \in DOMAIN index_map : ~Connected(nodes', index_map', x, y).value
          /\ {x} \in Partition(nodes', index_map')]_vars

(* C18 amended: the same, for the sets whose constructor inputs were       *)
(* pairwise distinct and on which add was never called for a present       *)
(* element.                                                                *)
C18_AddReturnsCountWhenDistinct ==
  [][\A x \in Elems :
       (~Present(x) /\ ~dupPushed /\ DSAdd(x))
       => /\ result' = Cardinality(DOMAIN index_map)
          /\ result' = Len(nodes)
          /\ index_map'[x] = result'
          /\ \A y \in DOMAIN index_map : ~Connected(nodes', index_map', x, y).value
          /\ {x} \in Partition(nodes', index_map')]_vars

(* C18 witness: a set made from one element, to which a second was added   *)
(* and united, took a third element, which got index 2.                    *)
C18_Witness ==
  /\ cls = "DisjointSet"
  /\ last = "add"
  /\ ~dupPushed
  /\ Len(input) = 1
  /\ result = 2
  /\ \E x, y \in DOMAIN index_map : x # y /\ {x, y} \in united
  /\ Cardinality(Partition(nodes, index_map)) = 2

----------------------------------------------------------------------------
(* The SparseByteSet (sparse_byte_set.h).  The code's bytes are 0..255;    *)
(* the model keeps the structure with bytes 0..MaxByte: capacity is the    *)
(* number of byte values and the conversion to a byte is modulo capacity.  *)

MaxByte == 3

Bytes == 0..MaxByte

capacity == MaxByte + 1

(* The constructor initialises size_ only.  A cell of sparse_ or dense_    *)
(* that was never written is Indeterminate; the first read of it finds     *)
(* whatever byte the memory holds, and from then on the model knows it.    *)
Indeterminate == -1

Uninitialised == [i \in Bytes |-> Indeterminate]

Zeroed == [i \in Bytes |-> 0]

(* The bytes a read of a cell can find. *)
Read(cell) == IF cell = Indeterminate THEN Bytes ELSE {cell}

ToByte(n) == n % capacity

ContainsOutcomes_noDenseCheck(size, sp, de, byte) ==
  {[sparse |-> [sp EXCEPT ![byte] = s], dense |-> de, value |-> (s < size)] :
     s \in Read(sp[byte])}

(* contains: sparse_[byte] < size_ && dense_[sparse_[byte]] == byte.  The   *)
(* outcomes are the value returned together with what the reads found.     *)
ContainsOutcomes(size, sp, de, byte) ==
  UNION {IF s < size
         THEN {[sparse |-> [sp EXCEPT ![byte] = s],
                dense |-> [de EXCEPT ![s] = d],
                value |-> (d = byte)] : d \in Read(de[s])}
         ELSE {[sparse |-> [sp EXCEPT ![byte] = s], dense |-> de, value |-> FALSE]}
         : s \in Read(sp[byte])}

Added_sparseStale(size, sp, de, byte) ==
  [size |-> size + 1, sparse |-> sp, dense |-> [de EXCEPT ![size] = byte]]

(* add after contains returned false: the three writes.  A write to        *)
(* dense_[size_] with size_ = capacity would be out of bounds.             *)
Added(size, sp, de, byte) ==
  [size |-> size + 1,
   sparse |-> [sp EXCEPT ![byte] = ToByte(size)],
   dense |-> [de EXCEPT ![size] = byte]]

ResetState_keepSize(size) == [size |-> size, sparse |-> Zeroed, dense |-> Zeroed]

(* reset: size_ = 0 and both arrays zeroed. *)
ResetState(size) == [size |-> 0, sparse |-> Zeroed, dense |-> Zeroed]

InitSBS ==
  /\ cls = "SparseByteSet"
  /\ last = "make"
  /\ NoHeap
  /\ input = << >>
  /\ nodes = << >>
  /\ index_map = EmptyMap
  /\ ret = "ok"
  /\ halted = FALSE
  /\ dupPushed = FALSE
  /\ misuse = 0
  /\ result = "none"
  /\ united = {}
  /\ size_ = 0
  /\ sparse_ = Uninitialised
  /\ dense_ = Uninitialised
  /\ added = {}

dsVars == <<nodes, index_map, input, dupPushed, misuse, united>>

SBSAdd(byte) ==
  /\ ~halted
  /\ cls = "SparseByteSet"
  /\ last' = "add"
  /\ \E c \in ContainsOutcomes(size_, sparse_, dense_, byte) :
       IF c.value
       THEN /\ result' = FALSE
            /\ ret' = "ok"
            /\ sparse_' = c.sparse
            /\ dense_' = c.dense
            /\ UNCHANGED <<size_, halted>>
       ELSE IF size_ < capacity
       THEN /\ result' = TRUE
            /\ ret' = "ok"
            /\ size_' = Added(size_, c.sparse, c.dense, byte).size
            /\ sparse_' = Added(size_, c.sparse, c.dense, byte).sparse
            /\ dense_' = Added(size_, c.sparse, c.dense, byte).dense
            /\ UNCHANGED halted
       ELSE /\ result' = "none"
            /\ ret' = "out_of_bounds"
            /\ halted' = TRUE
            /\ sparse_' = c.sparse
            /\ dense_' = c.dense
            /\ UNCHANGED size_
  /\ added' = added \cup {byte}
  /\ UNCHANGED <<cls, heapVars, dsVars>>

SBSContains(byte) ==
  /\ ~halted
  /\ cls = "SparseByteSet"
  /\ last' = "contains"
  /\ \E c \in ContainsOutcomes(size_, sparse_, dense_, byte) :
       /\ result' = c.value
       /\ sparse_' = c.sparse
       /\ dense_' = c.dense
  /\ ret' = "ok"
  /\ UNCHANGED <<cls, heapVars, dsVars, halted, size_, added>>

SBSReset ==
  /\ ~halted
  /\ cls = "SparseByteSet"
  /\ last' = "reset"
  /\ size_' = ResetState(size_).size
  /\ sparse_' = ResetState(size_).sparse
  /\ dense_' = ResetState(size_).dense
  /\ added' = {}
  /\ result' = "none"
  /\ ret' = "ok"
  /\ UNCHANGED <<cls, heapVars, dsVars, halted>>

NextSBS ==
  \/ \E byte \in Bytes : SBSAdd(byte)
  \/ \E byte \in Bytes : SBSContains(byte)
  \/ SBSReset

SpecSBS == InitSBS /\ [][NextSBS]_vars

----------------------------------------------------------------------------
(* Claims about the SparseByteSet. *)

(* What contains(byte) can return in a state with these members. *)
ContainsValues(size, sp, de, byte) ==
  {c.value : c \in ContainsOutcomes(size, sp, de, byte)}

(* C19: whatever the unwritten cells of sparse_ and dense_ hold, the set   *)
(* behaves like the set of the bytes added: a fresh set contains no byte,  *)
(* add(b) returns true exactly when b was not added before, contains(b)    *)
(* returns true exactly when b was added, and a byte that is contained     *)
(* stays contained until a reset.                                          *)
C19_BehavesLikeByteSet ==
  [][cls = "SparseByteSet" =>
       /\ last = "make" => (size_ = 0 /\ added = {})
       /\ \A b \in Bytes :
            /\ ContainsValues(size_, sparse_, dense_, b) = {b \in added}
            /\ SBSAdd(b) => (ret' = "ok" /\ result' = (b \notin added))
            /\ SBSContains(b) => result' = (b \in added)
            /\ (b \in added /\ ~SBSReset)
                 => ContainsValues(size_', sparse_', dense_', b) = {TRUE}]_vars

(* C19 witness: on a set that was never reset, all bytes but one were      *)
(* added, and the cell of sparse_ of the byte left out was found to hold   *)
(* the slot of an added byte.                                              *)
C19_Witness ==
  /\ cls = "SparseByteSet"
  /\ last = "contains"
  /\ result = FALSE
  /\ size_ = MaxByte
  /\ \E b \in Bytes \ added : sparse_[b] > 0 /\ sparse_[b] < size_

(* C20: reset, whatever was added before, leaves a set for which           *)
(* contains(b) is false for every byte and for which the next add of any   *)
(* byte returns true and stores it, as on a fresh set.                     *)
C20_ResetIsFresh ==
  [][SBSReset =>
       /\ size_' = 0
       /\ \A b \in Bytes :
            /\ ContainsValues(size_', sparse_', dense_', b) = {FALSE}
            /\ \A c \in ContainsOutcomes(size_', sparse_', dense_', b) :
                 /\ Added(size_', c.sparse, c.dense, b).size = 1
                 /\ ContainsValues(1, Added(size_', c.sparse, c.dense, b).sparse,
                                   Added(size_', c.sparse, c.dense, b).dense, b) = {TRUE}]_vars

(* C20 witness: a set with bytes in it was reset and then took an add of  *)
(* a byte other than 0, which returned true.                              *)
C20_Witness ==
  /\ cls = "SparseByteSet"
  /\ last = "add"
  /\ result = TRUE
  /\ size_ = 1
  /\ added # {}
  /\ \A b \in Bytes : sparse_[b] = 0
  /\ \A i \in Bytes : dense_[i] # Indeterminate
  /\ dense_[0] # 0

----------------------------------------------------------------------------
(* The utilities: functional::zip (zip.h), util::resize (resize.h) and     *)
(* util::shift_to_value (shift_to_value.h).  nodes is the container that   *)
(* resize and shift_to_value work on, input the sequences handed to zip    *)
(* and result the tuples its iteration produced.                           *)

MaxSeq == 3

MaxZip == 2

UtilSeqs == SeqsUpTo(Values, MaxSeq)

(* zip relates elements by their positions only: two values tell any two   *)
(* positions of a sequence apart.                                          *)
ZipSeqs == SeqsUpTo({0, 1}, MaxZip)

(* The argument lists of zip: the tests zip two and three sequences. *)
ZipArgs == UNION {[1..n -> ZipSeqs] : n \in 1..3}

(* zipper::begin and zipper::end: the tuple of the begin, or of the end,   *)
(* iterators of the arguments.  An iterator is the offset it points at.    *)
ZipBegin(seqs) == [j \in DOMAIN seqs |-> 0]

ZipEnd(seqs) == [j \in DOMAIN seqs |-> Len(seqs[j])]

(* any_match: some iterator of lhs equals the one of rhs at its place. *)
AnyMatch(lhs, rhs) == \E j \in DOMAIN lhs : lhs[j] = rhs[j]

(* zip_iterator::operator==. *)
ZipIterEq(lhs, rhs) == AnyMatch(lhs, rhs)

(* zip_iterator::operator++: every iterator advances. *)
ZipIncrement(iters) == [j \in DOMAIN iters |-> iters[j] + 1]

ZipDeref_firstOnly(seqs, iters) == [j \in DOMAIN iters |-> At(seqs[1], iters[1])]

(* zip_iterator::operator*: the tuple of the dereferenced iterators. *)
ZipDeref(seqs, iters) == [j \in DOMAIN iters |-> At(seqs[j], iters[j])]

(* for (auto&& t : zip(...)): from begin(), while the iterator differs     *)
(* from end(), take *it and ++it.                                          *)
RECURSIVE ZipLoop(_, _, _)
ZipLoop(seqs, it, out) ==
  IF ZipIterEq(it, ZipEnd(seqs)) THEN out
  ELSE ZipLoop(seqs, ZipIncrement(it), Append(out, ZipDeref(seqs, it)))

ZipIterated(seqs) == ZipLoop(seqs, ZipBegin(seqs), << >>)

(* vector::erase(first, end) for offsets first <= end within the vector. *)
Erased(s, first, end) == SubSeq(s, 1, first) \o SubSeq(s, end + 1, Len(s))

(* resize: container.erase(std::end(container) - amount, std::end(container)). *)
Resized(s, amount) == Erased(s, Len(s) - amount, Len(s))

(* resize with an amount above the size forms an iterator before begin(),  *)
(* which is undefined: a checked build ends the process, an unchecked one  *)
(* leaves a vector whose end lies before its begin.                        *)
ResizeOvershootOutcomes == {"abort", "corrupt"}

FindFrom_last(s, i, v) ==
  IF \E j \in 0..(Len(s) - 1) : At(s, j) = v
  THEN CHOOSE j \in 0..(Len(s) - 1) :
         At(s, j) = v /\ \A h \in 0..(Len(s) - 1) : At(s, h) = v => h <= j
  ELSE Len(s)

(* std::find(first, last, value) from offset i: the offset of the first    *)
(* element equal to value, or the end offset.                              *)
RECURSIVE FindFrom(_, _, _)
FindFrom(s, i, v) ==
  IF i = Len(s) \/ At(s, i) = v THEN i ELSE FindFrom(s, i + 1, v)

(* std::rotate(first, middle, last) over the whole container: the element  *)
(* at middle becomes the first, the elements before it follow the rest.    *)
Rotated(s, middle) == SubSeq(s, middle + 1, Len(s)) \o SubSeq(s, 1, middle)

ShiftedToValue(s, v) == Rotated(s, FindFrom(s, 0, v))

InitUtil ==
  /\ cls = "Util"
  /\ last = "make"
  /\ NoHeap
  /\ \/ input \in ZipArgs /\ nodes = << >>
     \/ input = << >> /\ nodes \in UtilSeqs
  /\ index_map = EmptyMap
  /\ ret = "ok"
  /\ halted = FALSE
  /\ dupPushed = FALSE
  /\ misuse = 0
  /\ NoOthers

utilFrame == <<cls, heapVars, index_map, dupPushed, misuse, united, byteSetVars>>

(* The range-based for loop over zip(input...). *)
UtilZip ==
  /\ ~halted
  /\ cls = "Util"
  /\ input # << >>
  /\ last' = "zip"
  /\ result' = ZipIterated(input)
  /\ ret' = "ok"
  /\ UNCHANGED <<utilFrame, nodes, input, halted>>

UtilResize(amount) ==
  /\ ~halted
  /\ cls = "Util"
  /\ last' = "resize"
  /\ result' = amount
  /\ IF amount <= Len(nodes)
     THEN /\ nodes' = Resized(nodes, amount)
          /\ ret' = "ok"
          /\ UNCHANGED halted
     ELSE /\ \E o \in ResizeOvershootOutcomes : ret' = o
          /\ halted' = TRUE
          /\ UNCHANGED nodes
  /\ UNCHANGED <<utilFrame, input>>

UtilShiftToValue(v) ==
  /\ ~halted
  /\ cls = "Util"
  /\ last' = "shift_to_value"
  /\ result' = v
  /\ nodes' = ShiftedToValue(nodes, v)
  /\ ret' = "ok"
  /\ UNCHANGED <<utilFrame, input, halted>>

NextUtil ==
  \/ UtilZip
  \/ \E amount \in 0..MaxSeq : UtilResize(amount)
  \/ \E v \in Values : UtilShiftToValue(v)

SpecUtil == InitUtil /\ [][NextUtil]_vars

----------------------------------------------------------------------------
(* Claims about the utilities. *)

(* The length of the shortest of the sequences. *)
MinLen(seqs) ==
  CHOOSE n \in {Len(seqs[j]) : j \in DOMAIN seqs} : \A j \in DOMAIN seqs : n <= Len(seqs[j])

(* C21: the iteration over zip(s1, ..., sk) yields as many tuples as the   *)
(* shortest sequence has elements, the i-th tuple holding the i-th element *)
(* of every sequence in the order of the arguments, and none when one of   *)
(* the sequences is empty; for two sequences these are the pairs the       *)
(* constructors of the queue build their maps from.                        *)
C21_ZipYieldsMinTuples ==
  (cls = "Util" /\ last = "zip") =>
    /\ Len(result) = MinLen(input)
    /\ \A i \in 1..MinLen(input) :
         /\ DOMAIN result[i] = DOMAIN input
         /\ \A j \in DOMAIN input : result[i][j] = input[j][i]
    /\ (\E j \in DOMAIN input : input[j] = << >>) => result = << >>
    /\ Len(input) = 2 => result = Zip(input[1], input[2])

(* C21 witness: three sequences of different lengths were zipped; the      *)
(* iteration stopped after the only element of the shortest, and its tuple *)
(* holds different values.                                                 *)
C21_Witness ==
  /\ cls = "Util"
  /\ last = "zip"
  /\ Len(input) = 3
  /\ Len(input[1]) = MaxZip
  /\ Len(input[2]) = 1
  /\ Len(input[3]) = MaxZip
  /\ Len(result) = 1
  /\ result[1][1] # result[1][2]
  /\ result[1][3] = result[1][2]

(* C22 as claimed: resize(container, amount) with amount <= size leaves    *)
(* exactly amount elements, the first amount elements of the original in   *)
(* their order.                                                            *)
C22_ResizeKeepsAmount ==
  [][\A amount \in 0..MaxSeq :
       (cls = "Util" /\ last' = "resize" /\ amount <= Len(nodes) /\ UtilResize(amount))
       => /\ ret' = "ok"
          /\ Len(nodes') = amount
          /\ nodes' = SubSeq(nodes, 1, amount)]_vars

(* C23: shift_to_value(container, value) keeps the size; when the value    *)
(* occurs, the container is rotated left by the offset of its first        *)
(* occurrence, which becomes the first element, every element keeping its  *)
(* cyclic successor; when the value does not occur, the container is left  *)
(* as it was.  The three calls of the tests give the vectors they expect.  *)
C23_ShiftRotatesToFirst ==
  [][\A v \in Values :
       (cls = "Util" /\ last' = "shift_to_value" /\ result' = v /\ UtilShiftToValue(v))
       => /\ ret' = "ok"
          /\ Len(nodes') = Len(nodes)
          /\ v \notin Elements(nodes) => nodes' = nodes
          /\ v \in Elements(nodes) =>
               \E p \in 0..(Len(nodes) - 1) :
                 /\ At(nodes, p) = v
                 /\ \A q \in 0..(p - 1) : At(nodes, q) # v
                 /\ At(nodes', 0) = v
                 /\ \A i \in 0..(Len(nodes) - 1) : At(nodes', i) = At(nodes, (i + p) % Len(nodes))
          /\ ShiftedToValue(<<0, 1, 2, 3, 4, 5, 6, 7, 8, 9>>, 5) = <<5, 6, 7, 8, 9, 0, 1, 2, 3, 4>>
          /\ ShiftedToValue(<<0, 10, 10, 10, 20>>, 10) = <<10, 10, 10, 20, 0>>
          /\ ShiftedToValue(<<0, 10, 10, 10, 20>>, 1) = <<0, 10, 10, 10, 20>>]_vars

(* C23 witness: a full container was shifted to a value it holds twice;    *)
(* both occurrences lead and another value closes the container.           *)
C23_Witness ==
  /\ cls = "Util"
  /\ last = "shift_to_value"
  /\ Len(nodes) = MaxSeq
  /\ nodes[1] = result
  /\ nodes[2] = result
  /\ nodes[MaxSeq] # result

----------------------------------------------------------------------------
(* Claims about the single swaps of the PriorityQueue. *)

(* The slots and the index map a sift of the queue starts from: after the  *)
(* constructor built the maps, after push wrote the entry of the new       *)
(* element and appended it, after pop moved the last element to the root   *)
(* and set its entry, after update_key read the entry of the element.      *)
PQMakeStart(pairs) == SiftState(ValuesOf(pairs), BuildIndexMap(ValuesOf(pairs)))

PQPushStart(s, im, v) == SiftState(Append(s, v), MapPut(im, v, Len(s)))

PQPopStart(s, im) ==
  IF Len(PopTruncate(s)) > 0
  THEN SiftState(PopTruncate(s), MapPut(MapErase(im, At(s, 0)), At(PopTruncate(s), 0), 0))
  ELSE SiftState(PopTruncate(s), MapErase(im, At(s, 0)))

PQUpdateStart(s, im, v) == SiftState(s, MapSubscript(im, v))

(* The same state, its slots and its map written out entry by entry. *)
Tabulated(st) == [st EXCEPT !.nodes = @ @@ << >>, !.index_map = @ @@ EmptyMap]

(* The states a run of swap_nodes calls goes through, the first included. *)
RECURSIVE SwapTrace(_, _)
SwapTrace(st, swaps) ==
  IF swaps = << >> THEN <<st>>
  ELSE <<st>> \o SwapTrace(Tabulated(SwapNodes(TRUE, st, Head(swaps)[1], Head(swaps)[2])),
                            Tail(swaps))

(* Every slot has its value's entry in the index map, and it is the slot. *)
IndexExact(st) ==
  \A s \in 0..(Len(st.nodes) - 1) :
    MapContains(st.index_map, At(st.nodes, s)) /\ st.index_map[At(st.nodes, s)] = s

(* What one swap of slots i and j may change between two states. *)
SwapFrame(b, a, i, j) ==
  LET x == At(b.nodes, i)
      y == At(b.nodes, j)
  IN /\ Len(a.nodes) = Len(b.nodes)
     /\ At(a.nodes, i) = y
     /\ At(a.nodes, j) = x
     /\ \A s \in 0..(Len(b.nodes) - 1) : s \notin {i, j} => At(a.nodes, s) = At(b.nodes, s)
     /\ DOMAIN a.index_map = DOMAIN b.index_map \cup {x, y}
     /\ \A w \in DOMAIN b.index_map : w \notin {x, y} => a.index_map[w] = b.index_map[w]
     /\ (MapContains(b.index_map, x) /\ MapContains(b.index_map, y))
          => (a.index_map[x] = b.index_map[y] /\ a.index_map[y] = b.index_map[x])

(* The swaps lead from the start to the slots and the index map the        *)
(* operation left, each within the frame of one swap; with distinct values *)
(* the index map is exact in every state on the way.                       *)
SwapsKeepIndex(start, swaps, endNodes, endIndexMap, distinct) ==
  LET tr == SwapTrace(Tabulated(start), swaps)
  IN /\ tr[Len(tr)].nodes = endNodes
     /\ tr[Len(tr)].index_map = endIndexMap
     /\ \A n \in 1..Len(swaps) : SwapFrame(tr[n], tr[n + 1], swaps[n][1], swaps[n][2])
     /\ distinct => \A n \in 1..Len(tr) : IndexExact(tr[n])

(* C24: in every state a queue reaches, the slots and the index map that   *)
(* the construction left, and those that each push, pop and update_key     *)
(* called on it leaves, are the ones their swap_nodes calls lead to from    *)
(* the state the sift starts in; each such call exchanges two slots and    *)
(* the index-map entries of their two values and leaves every other slot   *)
(* and entry alone; on a queue of distinct values index_map[nodes[s]] = s  *)
(* holds for every slot s after each single swap.                          *)
C24_SwapKeepsIndexMap ==
  (cls = "PriorityQueue" /\ ~halted) =>
    /\ last = "make" =>
         SwapsKeepIndex(PQMakeStart(input),
                        PQConstructed(HeapT, HeapC, K, IsHeap, input).swaps,
                        nodes, index_map, ~dupPushed)
    /\ \A v \in Values :
         LET st == PQPushed(HeapT, HeapC, K, nodes, index_map, v)
         IN SwapsKeepIndex(PQPushStart(nodes, index_map, v), st.swaps,
                           st.nodes, st.index_map, ~dupPushed /\ v \notin Stored)
    /\ ~Empty =>
         LET st == PQPopped(HeapT, HeapC, K, nodes, index_map)
         IN SwapsKeepIndex(PQPopStart(nodes, index_map), st.swaps,
                           st.nodes, st.index_map, ~dupPushed)
    /\ \A key \in Keys, v \in Values :
         LET st == PQKeyUpdated(HeapT, HeapC, K, nodes, index_map, key_map, v, key)
         IN SwapsKeepIndex(PQUpdateStart(nodes, index_map, v), st.swaps,
                           st.nodes, st.index_map, ~dupPushed)

(* C24 witness: the queue of the test input after its first pop, whose     *)
(* sift-down made two swaps or more.                                       *)
C24_Witness ==
  /\ cls = "PriorityQueue"
  /\ ~dupPushed
  /\ input = TestPairs
  /\ last = "pop"
  /\ Len(drain) = 1
  /\ LET made == PQConstructed(HeapT, HeapC, K, IsHeap, input)
         popped == PQPopped(HeapT, HeapC, K, made.nodes, made.index_map)
     IN /\ Len(popped.swaps) >= 2
        /\ nodes = popped.nodes
        /\ index_map = popped.index_map
        /\ IndexExact([nodes |-> nodes, index_map |-> index_map])

----------------------------------------------------------------------------
(* Claims about update_key and the order of the stored sequence. *)

(* What update_key(v, key) of a stored value may change: the key of v. *)
OnlyKeyChanged(key, v) ==
  /\ ret' = "ok"
  /\ nodes' = nodes
  /\ index_map' = index_map
  /\ DOMAIN key_map' = DOMAIN key_map
  /\ key_map'[v] = key
  /\ \A w \in DOMAIN key_map : w # v => key_map'[w] = key_map[w]

----------------------------------------------------------------------------
(* Claims about the ranks of the DisjointSet. *)

(* C26 as claimed: when unite merges two sets whose representatives have   *)
(* the same rank, the representative of the union has its rank raised by   *)
(* one; when the ranks differ, the representative of the larger rank       *)
(* becomes that of the union and keeps its rank.                           *)
C26_UnionByRank ==
  [][\A x, y \in Elems :
       (cls = "DisjointSet" /\ last' = "unite" /\ ~halted' /\ Present(x) /\ Present(y)
          /\ DSUnite(x, y))
       => LET fi == Find(nodes, index_map[x])
              fj == Find(fi.nodes, index_map[y])
              i == fi.index
              j == fj.index
              before == fj.nodes
              root == RootOf(nodes', i)
          IN i # j =>
               /\ root \in {i, j}
               /\ RootOf(nodes', j) = root
               /\ At(before, i).rank = At(before, j).rank
                    => At(nodes', root).rank = At(before, root).rank + 1
               /\ At(before, i).rank # At(before, j).rank
                    => /\ At(before, root).rank > At(before, CHOOSE o \in {i, j} : o # root).rank
                       /\ At(nodes', root).rank = At(before, root).rank]_vars

----------------------------------------------------------------------------
(* Sift-down: which slot wins.                                             *)

(* The slots of the sons of slot i that exist in a heap of the given size. *)
Sons(k, size, i) == {c \in ((k * i) + 1)..((k * i) + k) : c < size}

(* The sons of slot i whose value is the extreme among the sons. *)
BestSons(heapT, k, s, i) ==
  {c \in Sons(k, Len(s), i) : \A d \in Sons(k, Len(s), i) : Before(heapT, At(s, c), At(s, d))}

(* The slot the claim names: slot i itself when no son is strictly more    *)
(* extreme than it, else the lowest-indexed of the extreme sons.           *)
Chosen(heapT, k, s, i) ==
  IF \A c \in Sons(k, Len(s), i) : Before(heapT, At(s, i), At(s, c)) THEN i
  ELSE CHOOSE c \in BestSons(heapT, k, s, i) : \A d \in BestSons(heapT, k, s, i) : c <= d

(* C27: a sift-down from any slot of the heap's sequence makes no swap and *)
(* leaves the sequence alone when the slot ties with (or beats) its best   *)
(* son, and otherwise first swaps the slot with the lowest-indexed of the  *)
(* sons that tie for the extreme.                                          *)
C27_SiftDownTieBreak ==
  cls = "Heap" =>
    \A i \in 0..(Len(nodes) - 1) :
      LET st == HeapifyDown(FALSE, HeapT, HeapC, K, SiftState(nodes, EmptyMap), i)
          w == Chosen(HeapT, K, nodes, i)
      IN IF w = i THEN st.swaps = << >> /\ st.nodes = nodes
         ELSE st.swaps # << >> /\ st.swaps[1] = <<i, w>>

(* A heap sequence where two sons tie for the extreme and beat their       *)
(* parent, and one where the parent ties with its best son.                *)
C27_Witness ==
  /\ cls = "Heap"
  /\ \E i \in 0..(Len(nodes) - 1) :
       /\ Cardinality(BestSons(HeapT, K, nodes, i)) >= 2
       /\ Chosen(HeapT, K, nodes, i) # i
       /\ HeapifyDown(FALSE, HeapT, HeapC, K, SiftState(nodes, EmptyMap), i).swaps[1]
            = <<i, Chosen(HeapT, K, nodes, i)>>
  /\ \E i \in 0..(Len(nodes) - 1) :
       /\ Sons(K, Len(nodes), i) # {}
       /\ \E c \in BestSons(HeapT, K, nodes, i) : At(nodes, c) = At(nodes, i)
       /\ HeapifyDown(FALSE, HeapT, HeapC, K, SiftState(nodes, EmptyMap), i).swaps = << >>

----------------------------------------------------------------------------
(* BinaryHeap::heapify_down: the slots of nodes_ it reads.                 *)

BinaryIterReads_unguarded(heapT, s, i) == {i, Left(i), Right(i)}

(* One iteration of the while loop: nodes_[i] and nodes_[l] are read only  *)
(* when l < len, nodes_[comp_est] and nodes_[r] only when r < len.         *)
BinaryIterReads(heapT, s, i) ==
  LET len == Len(s)
      l == Left(i)
      r == Right(i)
      c1 == IF l < len /\ Comp(heapT, At(s, i), At(s, l)) THEN l ELSE i
  IN (IF l < len THEN {i, l} ELSE {}) \cup (IF r < len THEN {c1, r} ELSE {})

(* The whole sift from slot i: the reads of each iteration entered, and    *)
(* the two slots of each swap.                                             *)
RECURSIVE BinarySiftReads(_, _, _)
BinarySiftReads(heapT, s, i) ==
  IF BinaryIsLeaf(Len(s), i) THEN {}
  ELSE LET comp_est == BinaryCompEst(heapT, s, i)
       IN BinaryIterReads(heapT, s, i) \cup
          (IF i = comp_est THEN {}
           ELSE {i, comp_est} \cup BinarySiftReads(heapT, BaseSwapNodes(s, i, comp_est), comp_est))

(* C28: in a binary heap the leaf test lets slot size/2 into the loop,     *)
(* although it has no son (slot 0 when the heap is empty); the sift from   *)
(* that slot reads no slot, makes no swap and leaves the sequence alone,   *)
(* and a sift from any slot the build or a pop starts at reads only slots  *)
(* below size.                                                             *)
C28_BinaryLeafBoundary ==
  (cls = "Heap" /\ HeapC = "BinaryHeap") =>
    LET size == Len(nodes)
        st == BinaryHeapifyDown(FALSE, HeapT, SiftState(nodes, EmptyMap), size \div 2)
    IN /\ ~BinaryIsLeaf(size, size \div 2)
       /\ BinaryIsLeaf(size, (size \div 2) + 1)
       /\ Sons(2, size, size \div 2) = {}
       /\ BinarySiftReads(HeapT, nodes, size \div 2) = {}
       /\ st.swaps = << >>
       /\ st.nodes = nodes
       /\ ~st.fault
       /\ \A i \in 0..(size \div 2) : \A x \in BinarySiftReads(HeapT, nodes, i) : x < size

(* The binary heap is empty after popping its last element: pop ran        *)
(* heapify_down(0) on the empty sequence.                                  *)
C28_Witness ==
  /\ cls = "Heap"
  /\ HeapC = "BinaryHeap"
  /\ last = "pop"
  /\ ret = "ok"
  /\ nodes = << >>
  /\ drain # << >>
  /\ ~BinaryIsLeaf(0, 0)

----------------------------------------------------------------------------
(* Termination of the sifts.                                               *)

(* The depth of slot i in the k-ary tree laid out in the sequence, and the *)
(* height of a tree of the given size.                                     *)
RECURSIVE Depth(_, _)
Depth(k, i) == IF i = 0 THEN 0 ELSE 1 + Depth(k, (i - 1) \div k)

Height(k, size) == IF size = 0 THEN 0 ELSE Depth(k, size - 1)

(* The swaps of a sift-up from a slot: each goes from the current slot to  *)
(* a strictly lower one, never below 0, and the next starts where it ended.*)
SwapsClimb(swaps, start) ==
  \A n \in DOMAIN swaps :
    /\ swaps[n][1] = (IF n = 1 THEN start ELSE swaps[n - 1][2])
    /\ swaps[n][2] < swaps[n][1]
    /\ swaps[n][2] >= 0

(* The swaps of a sift-down from a slot: each goes to a strictly higher    *)
(* slot below size, and the next starts where it ended.                    *)
SwapsDescend(swaps, start, size) ==
  \A n \in DOMAIN swaps :
    /\ swaps[n][1] = (IF n = 1 THEN start ELSE swaps[n - 1][2])
    /\ swaps[n][1] < swaps[n][2]
    /\ swaps[n][2] < size

(* A sift that ended without a fault after at most tree-height swaps.      *)
SiftBounded(st, k) == ~st.fault /\ Len(st.swaps) <= Height(k, Len(st.nodes))

(* build_heap: a sift-down from each of the BuildStart slots, so at most   *)
(* BuildStart times tree-height swaps, each to a higher slot below size.   *)
BuildBounded(st, heapC, k) ==
  /\ ~st.fault
  /\ Len(st.swaps) <= BuildStart(heapC, k, Len(st.nodes)) * Height(k, Len(st.nodes))
  /\ \A n \in DOMAIN st.swaps :
       st.swaps[n][1] < st.swaps[n][2] /\ st.swaps[n][2] < Len(st.nodes)

(* C29: from every reachable heap or queue, build, push, pop and           *)
(* update_key end: the swaps of a sift-up strictly decrease the slot and   *)
(* stay at or above 0, those of a sift-down strictly increase it and stay  *)
(* below size, a sift makes at most tree-height swaps, and build makes at  *)
(* most one sift per start slot.  update_key is taken on a stored value of *)
(* a queue whose values are distinct, as the queue expects.                *)
C29_OperationsTerminate ==
  /\ cls = "Heap" =>
       /\ BuildBounded(BuildHeap(FALSE, HeapT, HeapC, K, SiftState(nodes, EmptyMap)), HeapC, K)
       /\ \A v \in Values :
            LET st == HeapifyUp(FALSE, HeapT, HeapC, K, SiftState(Append(nodes, v), EmptyMap), Len(nodes))
            IN SiftBounded(st, K) /\ SwapsClimb(st.swaps, Len(nodes))
       /\ ~Empty =>
            LET st == HeapifyDown(FALSE, HeapT, HeapC, K, SiftState(PopTruncate(nodes), EmptyMap), 0)
            IN SiftBounded(st, K) /\ SwapsDescend(st.swaps, 0, Len(nodes) - 1)
  /\ (cls = "PriorityQueue" /\ ~halted) =>
       /\ last = "make" =>
            BuildBounded(PQConstructed(HeapT, HeapC, K, FALSE, input), HeapC, K)
       /\ \A v \in Values :
            LET st == PQPushed(HeapT, HeapC, K, nodes, index_map, v)
            IN SiftBounded(st, K) /\ SwapsClimb(st.swaps, Len(nodes))
       /\ ~Empty =>
            LET st == PQPopped(HeapT, HeapC, K, nodes, index_map)
            IN SiftBounded(st, K) /\ SwapsDescend(st.swaps, 0, Len(nodes) - 1)
       /\ ~dupPushed =>
            \A key \in Keys, v \in Stored :
            LET st == PQKeyUpdated(HeapT, HeapC, K, nodes, index_map, key_map, v, key)
            IN /\ SiftBounded(st, K)
               /\ IF UpdateKeySift(HeapT, key_map, v, key) = "up"
                  THEN SwapsClimb(st.swaps, index_map[v])
                  ELSE SwapsDescend(st.swaps, index_map[v], Len(nodes))

(* A heap left by a pop from which a push climbs the whole height of the   *)
(* tree, at least two levels, and the next pop sifts down.                 *)
C29_Witness ==
  /\ cls = "Heap"
  /\ last = "pop"
  /\ ~Empty
  /\ \E v \in Values :
       LET st == HeapifyUp(FALSE, HeapT, HeapC, K, SiftState(Append(nodes, v), EmptyMap), Len(nodes))
       IN Len(st.swaps) = Height(K, Len(nodes) + 1) /\ Len(st.swaps) >= 2
  /\ HeapifyDown(FALSE, HeapT, HeapC, K, SiftState(PopTruncate(nodes), EmptyMap), 0).swaps # << >>

----------------------------------------------------------------------------
(* Build on a sequence that is a heap already.                             *)

(* C30: build_heap run on a sequence that satisfies the heap property      *)
(* makes no swap and leaves the sequence as it is, in the binary and the   *)
(* k-ary heap; so building what a build produced changes nothing.          *)
C30_BuildIdempotent ==
  cls = "Heap" =>
    LET once == BuildHeap(FALSE, HeapT, HeapC, K, SiftState(nodes, EmptyMap))
        twice == BuildHeap(FALSE, HeapT, HeapC, K, SiftState(once.nodes, EmptyMap))
    IN /\ HeapProperty(HeapT, HeapC, K, nodes) => (once.swaps = << >> /\ once.nodes = nodes)
       /\ twice.swaps = << >>
       /\ twice.nodes = once.nodes

(* A heap made in build mode from a sequence the build had to reorder,     *)
(* with equal values in it; a second build of the result makes no swap.    *)
C30_Witness ==
  /\ cls = "Heap"
  /\ last = "make"
  /\ ~IsHeap
  /\ nodes # input
  /\ Len(nodes) >= 3
  /\ HasDuplicate(nodes)
  /\ HeapProperty(HeapT, HeapC, K, nodes)
  /\ BuildHeap(FALSE, HeapT, HeapC, K, SiftState(nodes, EmptyMap)).swaps = << >>

----------------------------------------------------------------------------
(* The parent links of the DisjointSet.                                    *)

(* Every parent link stays inside the sequence and the walk from any node  *)
(* meets a self-parented node after at most size - 1 links.                *)
Forest(ns) ==
  \A i \in 0..(Len(ns) - 1) :
    /\ At(ns, i).parent \in 0..(Len(ns) - 1)
    /\ LET r == RootWalk(ns, i, Len(ns) - 1) IN At(ns, r).parent = r

(* The nodes of before keep the root they had. *)
SameRoots(before, after) ==
  /\ Len(after) = Len(before)
  /\ \A i \in 0..(Len(before) - 1) : RootOf(after, i) = RootOf(before, i)

(* C31: the parent links form a forest before and after every add, unite   *)
(* and query; find from any node ends at the root of that node and leaves  *)
(* a forest in which every node has the root it had; are_connected and     *)
(* get_sets, whatever they rewrite, leave every node its root.             *)
C31_ForestAndQueriesKeepRoots ==
  [][cls = "DisjointSet" =>
       /\ Forest(nodes)
       /\ Forest(nodes')
       /\ \A i \in 0..(Len(nodes) - 1) :
            LET f == Find(nodes, i)
            IN /\ f.index = RootOf(nodes, i)
               /\ Forest(f.nodes)
               /\ SameRoots(nodes, f.nodes)
       /\ last' \in {"are_connected", "get_sets"} =>
            /\ SameRoots(nodes, nodes')
            /\ Partition(nodes', index_map') = Partition(nodes, index_map)]_vars

(* A unite left a node two links away from its root, so that the find of   *)
(* the next query rewrites a parent link.                                  *)
C31_Witness ==
  /\ cls = "DisjointSet"
  /\ last = "unite"
  /\ ~halted
  /\ \E i \in 0..(Len(nodes) - 1) :
       /\ Find(nodes, i).nodes # nodes
       /\ RootOf(Find(nodes, i).nodes, i) = RootOf(nodes, i)
       /\ At(nodes, i).parent # RootOf(nodes, i)

----------------------------------------------------------------------------
(* The slots a push writes.                                                *)

(* The slots on the parent chain of slot i in the k-ary layout, slot i     *)
(* excluded.                                                               *)
RECURSIVE Ancestors(_, _)
Ancestors(k, i) ==
  IF i = 0 THEN {} ELSE {(i - 1) \div k} \cup Ancestors(k, (i - 1) \div k)

(* C32: a push on a heap of size n makes the size n + 1 and leaves every   *)
(* slot below n that is not an ancestor of slot n with the element it had. *)
C32_PushWritesAncestorsOnly ==
  [][(cls = "Heap" /\ last' = "push" /\ (\E v \in Values : Push(v))) =>
       /\ Len(nodes') = Len(nodes) + 1
       /\ \A s \in 0..(Len(nodes) - 1) :
            s \notin Ancestors(K, Len(nodes)) => At(nodes', s) = At(nodes, s)]_vars

(* The heap has at least four elements and is what a push leaves that      *)
(* moved its new element one level up: the element is in an ancestor slot  *)
(* of the last slot, which holds what that ancestor held; a slot off the   *)
(* ancestor path exists.                                                   *)
C32_Witness ==
  /\ cls = "Heap"
  /\ last = "push"
  /\ Len(nodes) >= 4
  /\ \E v \in Values :
       /\ At(nodes, Len(nodes) - 1) # v
       /\ \E a \in Ancestors(K, Len(nodes) - 1) : At(nodes, a) = v
       /\ nodes = HeapPushed(HeapT, HeapC, K,
                             [SubSeq(nodes, 1, Len(nodes) - 1) EXCEPT
                                ![CHOOSE a \in 1..(Len(nodes) - 1) :
                                    (a - 1) \in Ancestors(K, Len(nodes) - 1) /\ nodes[a] = v]
                                  = nodes[Len(nodes)]], v)
  /\ (0..(Len(nodes) - 2)) \ Ancestors(K, Len(nodes) - 1) # {}

----------------------------------------------------------------------------
(* KHeap::heapify_down: the slots of nodes_ it reads.                      *)

KLoopReads_unguarded(heapT, k, s, i, j, comp_est) ==
  {comp_est} \cup {Child(k, i, jj) : jj \in j..(k - 1)}

(* The for loop from son j on: nodes_[comp_est] and nodes_[son] are read   *)
(* only when son < len; the sons grow with j, so past the first son beyond *)
(* the size nothing more is read.                                          *)
RECURSIVE KLoopReads(_, _, _, _, _, _)
KLoopReads(heapT, k, s, i, j, comp_est) ==
  IF j >= k \/ Child(k, i, j) >= Len(s) THEN {}
  ELSE LET son == Child(k, i, j)
       IN {comp_est, son} \cup
          KLoopReads(heapT, k, s, i, j + 1,
                     IF Comp(heapT, At(s, comp_est), At(s, son)) THEN son ELSE comp_est)

(* The whole sift from slot i: the reads of each iteration entered, and    *)
(* the two slots of each swap.                                             *)
RECURSIVE KSiftReads(_, _, _, _)
KSiftReads(heapT, k, s, i) ==
  IF KIsLeaf(k, Len(s), i) THEN {}
  ELSE LET comp_est == KCompEst(heapT, k, s, i, 0, i)
       IN KLoopReads(heapT, k, s, i, 0, i) \cup
          (IF i = comp_est THEN {}
           ELSE {i, comp_est} \cup KSiftReads(heapT, k, BaseSwapNodes(s, i, comp_est), comp_est))

(* C33: in a k-ary heap of size 0 or 1 the subtraction size - 2 of the     *)
(* leaf test wraps around, so slot 0 is not a leaf; heapify_down(0), as    *)
(* pop of the last element and build of such an input run it, reads no     *)
(* slot, makes no swap and leaves the sequence alone.  For every size, the *)
(* sifts build and pop start read only slots below size.                   *)
C33_KLeafTestWraps ==
  (cls = "Heap" /\ HeapC = "KHeap") =>
    LET size == Len(nodes)
        st == KHeapifyDown(FALSE, HeapT, K, SiftState(nodes, EmptyMap), 0)
        built == BuildHeap(FALSE, HeapT, HeapC, K, SiftState(nodes, EmptyMap))
    IN /\ size <= 1 =>
            /\ (size - 2) % SizeTMod = SizeTMod + size - 2
            /\ ~KIsLeaf(K, size, 0)
            /\ BuildStart(HeapC, K, size) = 1
            /\ KSiftReads(HeapT, K, nodes, 0) = {}
            /\ st.swaps = << >> /\ st.nodes = nodes /\ ~st.fault
            /\ built.swaps = << >> /\ built.nodes = nodes /\ ~built.fault
       /\ size >= 2 => (size - 2) % SizeTMod = size - 2
       /\ \A i \in 0..(size \div K) : \A x \in KSiftReads(HeapT, K, nodes, i) : x < size

(* The k-ary heap is empty after popping its last element: pop ran         *)
(* heapify_down(0) on the empty sequence, where slot 0 is not a leaf.      *)
C33_Witness ==
  /\ cls = "Heap"
  /\ HeapC = "KHeap"
  /\ last = "pop"
  /\ ret = "ok"
  /\ nodes = << >>
  /\ drain # << >>
  /\ ~KIsLeaf(K, 0, 0)

----------------------------------------------------------------------------
(* The representation invariant of the SparseByteSet.                      *)

(* size_ is at most the capacity, the cells of dense_ below size_ hold     *)
(* pairwise distinct bytes, and sparse_ at each of them holds its index.   *)
DenseSparseAgree(size, sp, de) ==
  /\ size \in 0..capacity
  /\ \A i \in 0..(size - 1) :
       /\ de[i] \in Bytes
       /\ sp[de[i]] = i
       /\ \A j \in 0..(size - 1) : i # j => de[i] # de[j]

(* C34: on every step of add, contains and reset the representation        *)
(* invariant holds before and after; no add finds size_ at the capacity    *)
(* with a byte to insert, so dense_ is written below the capacity only,    *)
(* and the index an add stores in sparse_ is size_ itself, unchanged by    *)
(* the conversion to a byte.                                               *)
C34_DenseSparseInvariant ==
  [][cls = "SparseByteSet" =>
       /\ DenseSparseAgree(size_, sparse_, dense_)
       /\ DenseSparseAgree(size_', sparse_', dense_')
       /\ ~halted'
       /\ ret' # "out_of_bounds"
       /\ (last' = "add" /\ size_' # size_) =>
            /\ size_ < capacity
            /\ size_' = size_ + 1
            /\ ToByte(size_) = size_
            /\ \E byte \in Bytes :
                 /\ dense_'[size_] = byte
                 /\ sparse_'[byte] = size_
                 /\ sparse_'[byte] = ToByte(size_)]_vars

(* The set is full: the add of the last missing byte value was accepted,   *)
(* the bytes having been added out of their numeric order.                 *)
C34_Witness ==
  /\ cls = "SparseByteSet"
  /\ last = "add"
  /\ ret = "ok"
  /\ result = TRUE
  /\ size_ = capacity
  /\ added = Bytes
  /\ \E i \in Bytes : dense_[i] # i

====
